---- MODULE Spec2Model ----
(***************************************************************************)
(* Tree-ensemble compiler and single-row evaluator of                      *)
(* onnxruntime/core/providers/cpu/ml/tree_ensemble_common.h, instantiated  *)
(* as TreeEnsembleCommon<float, float, float>.                             *)
(*                                                                         *)
(* A float is modelled by its IEEE-754 binary32 bit pattern with the sign  *)
(* bit clear (a natural number below 2^31), so that a threshold that has   *)
(* been overwritten by a category bitmask is the same object the code      *)
(* compares and bit-casts.  Positions in nodes_ and indices of the input   *)
(* arrays are 0-based as in the source; sequences are read with At.        *)
(***************************************************************************)
EXTENDS Integers, Sequences, FiniteSets, TLC

(***************************************************************************)
(* Bounds of the explored inputs.                                          *)
(***************************************************************************)
NTopo == 4
NBad == 3
MaxChain == 2
MaxDim == 2

(***************************************************************************)
(* binary32 bit patterns.                                                  *)
(***************************************************************************)
RECURSIVE Pow2(_)
Pow2(n) == IF n = 0 THEN 1 ELSE 2 * Pow2(n - 1)

TwoP23 == Pow2(23)

Float(e, m) == e * TwoP23 + m

FExp(b) == b \div TwoP23

FMant(b) == b % TwoP23

RECURSIVE Log2(_)
Log2(n) == IF n <= 1 THEN 0 ELSE 1 + Log2(n \div 2)

\* the float holding the small positive integer n
FromInt(n) == Float(127 + Log2(n), (n - Pow2(Log2(n))) * Pow2(23 - Log2(n)))

FZero == Float(0, 0)

FHalf == Float(126, 0)

FNaN == Float(255, Pow2(22))

isnan(b) == FExp(b) = 255 /\ FMant(b) # 0

\* v == std::floor(v), for a non-negative finite v
IsIntegral(b) ==
  IF FExp(b) < 127 THEN b = 0
  ELSE IF FExp(b) >= 150 THEN TRUE
  ELSE FMant(b) % Pow2(150 - FExp(b)) = 0

\* static_cast<uint32_t>(val) / static_cast<int64_t>(val): truncation
ToInt(b) ==
  IF FExp(b) < 127 THEN 0
  ELSE (TwoP23 + FMant(b)) \div Pow2(150 - FExp(b))

\* the comparison operators of float on non-negative patterns
FLeq(a, b) == ~isnan(a) /\ ~isnan(b) /\ a <= b

FLt(a, b) == ~isnan(a) /\ ~isnan(b) /\ a < b

FGeq(a, b) == ~isnan(a) /\ ~isnan(b) /\ a >= b

FGt(a, b) == ~isnan(a) /\ ~isnan(b) /\ a > b

FEq(a, b) == ~isnan(a) /\ ~isnan(b) /\ a = b

FNeq(a, b) == ~FEq(a, b)

Bit(m, k) == (m \div Pow2(k)) % 2

BitOr1(m, k) == IF Bit(m, k) = 1 THEN m ELSE m + Pow2(k)

(***************************************************************************)
(* Node modes and flags.                                                   *)
(***************************************************************************)
LEAF == "LEAF"

BRANCH_LEQ == "BRANCH_LEQ"

BRANCH_LT == "BRANCH_LT"

BRANCH_GTE == "BRANCH_GTE"

BRANCH_GT == "BRANCH_GT"

BRANCH_EQ == "BRANCH_EQ"

BRANCH_NEQ == "BRANCH_NEQ"

BRANCH_MEMBER == "BRANCH_MEMBER"

\* flags: the split mode in the low bits, missing_goes_true in the high bit
Flags(m, t) == [mode |-> m, kTrue |-> t]

is_not_leaf(node) == node.flags.mode # LEAF

is_missing_track_true(node) == node.flags.kTrue

mode(node) == node.flags.mode

BITCOUNT == 32

CANMASK_NoFloor(v) == FGeq(v, FromInt(1)) /\ FLeq(v, FromInt(BITCOUNT))

CANMASK(v) == (FGeq(v, FromInt(1)) /\ FLeq(v, FromInt(BITCOUNT))) /\ IsIntegral(v)

UpdateThreshold(val, mask) == BitOr1(mask, ToInt(val) - 1)

SetMembershipCheck(val, mask) == CANMASK(val) /\ Bit(mask, ToInt(val) - 1) # 0

At(s, i) == s[i + 1]

Max(a, b) == IF a >= b THEN a ELSE b

(***************************************************************************)
(* Init: validation of the flat attributes (a is the record of attribute   *)
(* arrays, named as the parameters of Init).                               *)
(***************************************************************************)
n_nodes(a) == Len(a.nodes_treeids)

Idx(a) == 0 .. n_nodes(a) - 1

\* MakeTreeNodeMode maps the mode strings onto NODE_MODE one to one
cmodes(a) == a.nodes_modes

\* same_mode_: every non-leaf input mode equals the first non-leaf input mode
SameMode(a) ==
  LET nl == {i \in Idx(a) : At(cmodes(a), i) # LEAF}
  IN  nl = {} \/
      LET fpos == CHOOSE i \in nl : \A j \in nl : i <= j
      IN  \A i \in nl : At(cmodes(a), i) = At(cmodes(a), fpos)

\* node_tree_ids_map.insert fails on a (tree_id, node_id) already there
DuplicateNode(a) ==
  \E i, j \in Idx(a) :
    /\ i < j
    /\ At(a.nodes_treeids, i) = At(a.nodes_treeids, j)
    /\ At(a.nodes_nodeids, i) = At(a.nodes_nodeids, j)

\* node_tree_ids_map.find: the index of node (tree, node), -1 for end()
MapFind(a, tree, node) ==
  LET hit == {i \in Idx(a) : At(a.nodes_treeids, i) = tree /\ At(a.nodes_nodeids, i) = node}
  IN  IF hit = {} THEN -1 ELSE CHOOSE i \in hit : TRUE

\* ChildFails without the throws of lines 288-290 and 299-301
ChildFails_NoSelf(a, i, child) ==
  \/ ~(child >= 0 /\ child < n_nodes(a))
  \/ MapFind(a, At(a.nodes_treeids, i), child) = -1

\* what the resolution of one child id of branch i does
ChildFails(a, i, child) ==
  \/ ~(child >= 0 /\ child < n_nodes(a))
  \/ MapFind(a, At(a.nodes_treeids, i), child) = -1
  \/ MapFind(a, At(a.nodes_treeids, i), child) = i

LinkFails(a) ==
  \E i \in Idx(a) :
    /\ At(cmodes(a), i) # LEAF
    /\ \/ ChildFails(a, i, At(a.nodes_truenodeids, i))
       \/ ChildFails(a, i, At(a.nodes_falsenodeids, i))

ResolveIds(a, ids) ==
  [k \in 1 .. n_nodes(a) |->
     IF cmodes(a)[k] = LEAF THEN 0
     ELSE MapFind(a, a.nodes_treeids[k], ids[k])]

truenode_ids(a) == ResolveIds(a, a.nodes_truenodeids)

falsenode_ids(a) == ResolveIds(a, a.nodes_falsenodeids)

(***************************************************************************)
(* Sorted target records: indices holds (tree_id, node_id, record index).  *)
(***************************************************************************)
TargetIdx(a) == 0 .. Len(a.target_class_nodeids) - 1

KeyOf(a, r) == <<At(a.target_class_treeids, r), At(a.target_class_nodeids, r), r>>

KeyLess(k1, k2) ==
  \/ k1[1] < k2[1]
  \/ k1[1] = k2[1] /\ k1[2] < k2[2]
  \/ k1[1] = k2[1] /\ k1[2] = k2[2] /\ k1[3] < k2[3]

RECURSIVE SortKeys(_)
SortKeys(ks) ==
  IF ks = {} THEN <<>>
  ELSE LET m == CHOOSE k \in ks : \A o \in ks : o = k \/ KeyLess(k, o)
       IN  <<m>> \o SortKeys(ks \ {m})

SortedIndices(a) == SortKeys({KeyOf(a, r) : r \in TargetIdx(a)})

\* std::lower_bound(indices, (node_tree_ids[i], 0)): 0-based position, Len for end()
LowerBound(ind, tree, node) ==
  LET ge == {p \in 1 .. Len(ind) : ~KeyLess(ind[p], <<tree, node, 0>>)}
  IN  IF ge = {} THEN Len(ind)
      ELSE (CHOOSE p \in ge : \A q \in ge : p <= q) - 1


(***************************************************************************)
(* CheckIfSubtreesAreEqual and AddNodes.  c is the context of one Init     *)
(* call: the attributes a, the resolved child indices tn and fn, the       *)
(* sorted indices ind, and ub, the outcome of reading indices.end().       *)
(* A result is "true", "false" or "crash" (a read past the end that        *)
(* faults, or a recursion that never returns).                             *)
(***************************************************************************)
RECURSIVE CheckIfSubtreesAreEqual(_, _, _, _)
CheckIfSubtreesAreEqual(c, left_id, right_id, fuel) ==
  LET a == c.a IN
  IF fuel = 0 THEN "crash"
  ELSE IF \/ At(cmodes(a), left_id) # At(cmodes(a), right_id)
          \/ At(a.nodes_featureids, left_id) # At(a.nodes_featureids, right_id)
          \/ FNeq(At(a.nodes_values, left_id), At(a.nodes_values, right_id))
  THEN "false"
  ELSE IF At(cmodes(a), left_id) = LEAF
  THEN LET lp == LowerBound(c.ind, At(a.nodes_treeids, left_id), At(a.nodes_nodeids, left_id))
           rp == LowerBound(c.ind, At(a.nodes_treeids, right_id), At(a.nodes_nodeids, right_id))
       IN  IF lp = Len(c.ind) \/ rp = Len(c.ind) THEN c.ub
           ELSE IF FEq(At(a.target_class_weights, At(c.ind, lp)[3]),
                       At(a.target_class_weights, At(c.ind, rp)[3]))
                THEN "true" ELSE "false"
  ELSE LET f == CheckIfSubtreesAreEqual(c, At(c.fn, left_id), At(c.fn, right_id), fuel - 1)
       IN  IF f # "true" THEN f
           ELSE CheckIfSubtreesAreEqual(c, At(c.tn, left_id), At(c.tn, right_id), fuel - 1)

\* the depth no terminating recursion over pairs of input nodes exceeds
PairFuel(a) == n_nodes(a) * n_nodes(a) + 1

\* The while loop of AddNodes that folds the false chain of node i into its
\* mask: r holds the running falsenode_id and mask; err is "hang" when the
\* loop never ends.
RECURSIVE FoldChain(_, _, _, _)
FoldChain(c, i, r, fuel) ==
  LET a == c.a
      falsenode_threshold == At(a.nodes_values, r.falsenode_id)
  IN  IF ~(/\ At(cmodes(a), r.falsenode_id) = BRANCH_EQ
           /\ At(a.nodes_featureids, i) = At(a.nodes_featureids, r.falsenode_id)
           /\ CANMASK(falsenode_threshold))
      THEN r
      ELSE LET eq == CheckIfSubtreesAreEqual(c, At(c.tn, i), At(c.tn, r.falsenode_id), PairFuel(a))
           IN  IF eq = "crash" THEN [r EXCEPT !.err = "crash"]
               ELSE IF eq = "false" THEN r
               ELSE IF fuel = 0 THEN [r EXCEPT !.err = "hang"]
               ELSE FoldChain(c, i,
                      [falsenode_id |-> At(c.fn, r.falsenode_id),
                       mask |-> UpdateThreshold(falsenode_threshold, r.mask),
                       err |-> ""],
                      fuel - 1)

\* the node AddNodes pushes for input node i (lines 441-460); src is the
\* input index it was built from, falsenode the input index line 484 uses
NewNode(a, i) ==
  LET node_threshold == At(a.nodes_values, i)
      canmask == At(cmodes(a), i) = BRANCH_EQ /\ CANMASK(node_threshold)
      missing == /\ i < Len(a.nodes_missing_value_tracks_true)
                 /\ At(a.nodes_missing_value_tracks_true, i) = 1
  IN  [flags |-> Flags(IF canmask THEN BRANCH_MEMBER ELSE At(cmodes(a), i), missing),
       feature_id |-> At(a.nodes_featureids, i),
       value_or_unique_weight |->
         IF canmask THEN UpdateThreshold(node_threshold, 0) ELSE node_threshold,
       ptr |-> -1,
       weight |-> 0,
       n_weights |-> 0,
       src |-> i,
       falsenode |-> -1]

\* s: nodes (nodes_), um (updated_mapping), maxf (max_feature_id_),
\* err ("" | "throw" | "crash" | "hang"), ret (the returned position)

\* lines 438-461: the node is pushed at the end of nodes_ and recorded
PushNode(s, i, node) ==
  [s EXCEPT !.nodes = Append(@, node),
            !.um[i + 1] = Len(s.nodes),
            !.maxf = Max(@, node.feature_id)]

\* lines 463-481: the false child to descend to and the mask, after folding
FalseChain(c, i, node) ==
  IF node.flags = Flags(BRANCH_MEMBER, FALSE)
  THEN FoldChain(c, i, [falsenode_id |-> At(c.fn, i),
                        mask |-> node.value_or_unique_weight, err |-> ""],
                 n_nodes(c.a))
  ELSE [falsenode_id |-> At(c.fn, i), mask |-> node.value_or_unique_weight,
        err |-> ""]

\* line 480, with the false child line 484 descends to
StoreChain(s1, node_pos, r) ==
  [s1 EXCEPT !.nodes[node_pos + 1].value_or_unique_weight = r.mask,
             !.nodes[node_pos + 1].falsenode = r.falsenode_id,
             !.err = r.err]

\* lines 497-500: truenode_or_weight.ptr is set, node_pos returned
SetTrueNode(s4, node_pos) ==
  IF s4.err # "" THEN s4
  ELSE [s4 EXCEPT !.nodes[node_pos + 1].ptr = s4.ret, !.ret = node_pos]

RECURSIVE AddNodes(_, _, _, _)

\* AddTrueNode without the throw of lines 487-490
AddTrueNode_NoCheck(c, s3, i, tree_id, node_pos) ==
  IF s3.err # "" THEN s3
  ELSE SetTrueNode(AddNodes(c, s3, At(c.tn, i), tree_id), node_pos)

\* lines 485-500: s3 is the state the descent into the false child returned
AddTrueNode(c, s3, i, tree_id, node_pos) ==
  IF s3.err # "" THEN s3
  ELSE IF s3.ret # node_pos + 1 THEN [s3 EXCEPT !.err = "throw"]
  ELSE SetTrueNode(AddNodes(c, s3, At(c.tn, i), tree_id), node_pos)

\* lines 484-500
AddBranch(c, s2, i, tree_id, node_pos, falsenode_id) ==
  AddTrueNode(c, AddNodes(c, s2, falsenode_id, tree_id), i, tree_id, node_pos)

\* lines 463-500: r is the outcome of the folding loop
AddChildren(c, s1, i, tree_id, node_pos, r) ==
  AddBranch(c, StoreChain(s1, node_pos, r), i, tree_id, node_pos, r.falsenode_id)

\* lines 438-502
AddNew(c, s, i, tree_id, node) ==
  IF ~is_not_leaf(node) THEN [PushNode(s, i, node) EXCEPT !.ret = Len(s.nodes)]
  ELSE AddChildren(c, PushNode(s, i, node), i, tree_id, Len(s.nodes),
                   FalseChain(c, i, node))

AddNodes(c, s, i, tree_id) ==
  IF s.err # "" THEN s
  ELSE IF At(c.a.nodes_treeids, i) # tree_id THEN [s EXCEPT !.err = "throw"]
  ELSE IF At(s.um, i) # 0 THEN [s EXCEPT !.ret = At(s.um, i)]
  ELSE AddNew(c, s, i, tree_id, NewNode(c.a, i))

\* line 327: roots_.push_back(&nodes_[AddNodes(...)])
PushRoot(t) == IF t.err # "" THEN t ELSE [t EXCEPT !.roots = Append(@, t.ret)]

\* the loop of Init over the input nodes that starts a tree at every change
\* of tree id (lines 321-333); s.roots collects roots_
RECURSIVE BuildTrees(_, _, _, _)
BuildTrees(c, s, i, previous_tree_id) ==
  IF i = n_nodes(c.a) \/ s.err # "" THEN s
  ELSE LET tree_id == At(c.a.nodes_treeids, i)
       IN  IF previous_tree_id = -1 \/ previous_tree_id # tree_id
           THEN BuildTrees(c, PushRoot(AddNodes(c, s, i, tree_id)), i + 1, tree_id)
           ELSE BuildTrees(c, s, i + 1, previous_tree_id)

\* the loop of Init that binds the sorted target records (lines 336-363)
RECURSIVE BindWeights(_, _, _)
BindWeights(c, s, indi) ==
  IF indi = Len(c.ind) \/ s.err # "" THEN s
  ELSE
    LET ind == At(c.ind, indi)
        i == ind[3]
        found == MapFind(c.a, ind[1], ind[2])
    IN  IF found = -1 THEN [s EXCEPT !.err = "throw"]
        ELSE
          LET pos == At(s.um, found)
              leaf == At(s.nodes, pos)
              w == [i |-> At(c.a.target_class_ids, i),
                    value |-> At(c.a.target_class_weights, i)]
              first == leaf.n_weights = 0
          IN  IF is_not_leaf(leaf) THEN BindWeights(c, s, indi + 1)
              ELSE BindWeights(c,
                     [s EXCEPT !.nodes[pos + 1].weight =
                                  IF first THEN Len(s.weights) ELSE @,
                               !.nodes[pos + 1].value_or_unique_weight =
                                  IF first THEN w.value ELSE @,
                               !.nodes[pos + 1].n_weights = @ + 1,
                               !.weights = Append(@, w)],
                     indi + 1)

HasMissingTracks(a) ==
  \E k \in 1 .. Len(a.nodes_missing_value_tracks_true) :
    a.nodes_missing_value_tracks_true[k] # 0

\* Init, from the attributes to the built members or to the failure
InitResult(a, ub) ==
  LET fail(e) == [err |-> e, nodes |-> <<>>, weights |-> <<>>, roots |-> <<>>,
                  um |-> <<>>, maxf |-> 0, ret |-> 0]
  IN  IF a.n_targets_or_classes <= 0 THEN fail("throw")
      ELSE IF DuplicateNode(a) THEN fail("throw")
      ELSE IF LinkFails(a) THEN fail("throw")
      ELSE
        LET c == [a |-> a, tn |-> truenode_ids(a), fn |-> falsenode_ids(a),
                  ind |-> SortedIndices(a), ub |-> ub]
            s0 == [err |-> "", nodes |-> <<>>, weights |-> <<>>, roots |-> <<>>,
                   um |-> [k \in 1 .. n_nodes(a) |-> 0], maxf |-> 0, ret |-> 0]
            s1 == BuildTrees(c, s0, 0, -1)
        IN  BindWeights(c, s1, 0)


(***************************************************************************)
(* The attribute sets explored.  Every family is a set of attribute        *)
(* records as a model file can hold them.                                  *)
(***************************************************************************)
Attrs(tree, ids, modes, feats, vals, tru, fal, miss, tt, tn, ti, tw, nt) ==
  [nodes_treeids |-> tree, nodes_nodeids |-> ids, nodes_modes |-> modes,
   nodes_featureids |-> feats, nodes_values |-> vals,
   nodes_truenodeids |-> tru, nodes_falsenodeids |-> fal,
   nodes_missing_value_tracks_true |-> miss,
   target_class_treeids |-> tt, target_class_nodeids |-> tn,
   target_class_ids |-> ti, target_class_weights |-> tw,
   n_targets_or_classes |-> nt]

\* the subsequence of the indices k of 1..n with keep[k], as a sequence
RECURSIVE Pick(_, _, _)
Pick(n, keep, k) ==
  IF k > n THEN <<>>
  ELSE (IF keep[k] THEN <<k>> ELSE <<>>) \o Pick(n, keep, k + 1)

\* Topologies: one tree of NTopo nodes whose node ids are their indices;
\* node 0 is a branch, the last node a leaf, any other node either; a branch
\* is BRANCH_LEQ on feature 0 with a threshold that grows with its index, and
\* its children are any two different nodes but itself.  Every leaf has one
\* record.
TopoLinks(k) ==
  LET others == (0 .. NTopo - 1) \ {k - 1}
  IN  (IF k = 1 THEN {} ELSE {<<-1, -1>>}) \cup
      (IF k = NTopo THEN {} ELSE {l \in others \X others : l[1] # l[2]})

RECURSIVE TopoPrefixes(_)
TopoPrefixes(k) ==
  IF k = 0 THEN {<<>>}
  ELSE {Append(l, x) : l \in TopoPrefixes(k - 1), x \in TopoLinks(k)}

TopoShapes == TopoPrefixes(NTopo)

TopoAttrs(l) ==
  LET leafs == Pick(NTopo, [k \in 1 .. NTopo |-> l[k] = <<-1, -1>>], 1)
  IN  Attrs([k \in 1 .. NTopo |-> 0],
            [k \in 1 .. NTopo |-> k - 1],
            [k \in 1 .. NTopo |-> IF l[k] = <<-1, -1>> THEN LEAF ELSE BRANCH_LEQ],
            [k \in 1 .. NTopo |-> 0],
            [k \in 1 .. NTopo |-> IF l[k] = <<-1, -1>> THEN FZero
                                  ELSE FromInt(1 + ((k - 1) \div 2))],
            [k \in 1 .. NTopo |-> IF l[k] = <<-1, -1>> THEN 0 ELSE l[k][1]],
            [k \in 1 .. NTopo |-> IF l[k] = <<-1, -1>> THEN 0 ELSE l[k][2]],
            [k \in 1 .. NTopo |-> 0],
            [r \in 1 .. Len(leafs) |-> 0],
            [r \in 1 .. Len(leafs) |-> leafs[r] - 1],
            [r \in 1 .. Len(leafs) |-> 0],
            [r \in 1 .. Len(leafs) |-> FromInt(leafs[r])],
            1)

\* Defective descriptions: NBad nodes of which node b is the only branch
\* (BRANCH_LEQ on feature b), each node with its index or 0 as node id, the
\* nodes split over one or two trees, and child ids that may name the branch
\* itself or no node.
\* Every leaf has one record.
BadTreeIds == {t \in [1 .. NBad -> {0, 1}] :
                 t[1] = 0 /\ \A k \in 1 .. NBad - 1 : t[k] <= t[k + 1]}

BadNodeIds == {ids \in [1 .. NBad -> 0 .. NBad - 1] :
                 \A k \in 1 .. NBad : ids[k] \in {0, k - 1}}

BadAttrs(b, ids, t, tru, fal) ==
  LET leafs == Pick(NBad, [k \in 1 .. NBad |-> k # b + 1], 1)
  IN  Attrs(t, ids,
            [k \in 1 .. NBad |-> IF k = b + 1 THEN BRANCH_LEQ ELSE LEAF],
            [k \in 1 .. NBad |-> IF k = b + 1 THEN b ELSE 0],
            [k \in 1 .. NBad |-> IF k = b + 1 THEN FromInt(1) ELSE FZero],
            [k \in 1 .. NBad |-> IF k = b + 1 THEN tru ELSE 0],
            [k \in 1 .. NBad |-> IF k = b + 1 THEN fal ELSE 0],
            [k \in 1 .. NBad |-> 0],
            [r \in 1 .. Len(leafs) |-> t[leafs[r]]],
            [r \in 1 .. Len(leafs) |-> ids[leafs[r]]],
            [r \in 1 .. Len(leafs) |-> 0],
            [r \in 1 .. Len(leafs) |-> FromInt(leafs[r])],
            1)


\* Categorical chains: a tree whose nodes 0 .. MaxChain-1 are BRANCH_EQ nodes,
\* each the false child of the one before, the last one's false child being
\* the leaf MaxChain.  The true child of a chain node is a leaf of its own
\* (with at most one record) or the leaf of the head; between the head and
\* the last chain node, thresholds are categories and an own leaf has the
\* record (0, 1.0).  The tree comes alone or after a tree that is a single
\* leaf.
Shared == [t |-> -2, w |-> 0]

NoRecord == [t |-> -1, w |-> 0]

LeafKinds == {NoRecord, [t |-> 0, w |-> FromInt(1)], [t |-> 1, w |-> FromInt(1)],
              [t |-> 0, w |-> FromInt(2)]}

FoldVals == {FromInt(1), FromInt(3), FHalf}

FoldMiss == {m \in [1 .. MaxChain -> {0, 1}] :
               \A k \in 2 .. MaxChain - 1 : m[k] = 0}

FoldFeats == {f \in [1 .. MaxChain -> {0, 1}] :
                \A k \in 1 .. MaxChain - 1 : f[k] = 0}

FoldKinds == {ch \in [1 .. MaxChain -> LeafKinds \cup {Shared}] :
                /\ ch[1] # Shared
                /\ \A k \in 2 .. MaxChain - 1 :
                     ch[k] \in {Shared, [t |-> 0, w |-> FromInt(1)]}}

FoldThresholds == {thr \in [1 .. MaxChain -> FoldVals] :
                     \A k \in 2 .. MaxChain - 1 : thr[k] # FHalf}

FoldAttrs(lead, thr, feat, miss, ch) ==
  LET K == MaxChain
      T == IF lead THEN 1 ELSE 0
      owns == Pick(K, [k \in 1 .. K |-> ch[k] # Shared], 1)
      n == K + 1 + Len(owns)
      OwnId(k) == K + Cardinality({j \in 1 .. k : ch[j] # Shared})
      TrueId(k) == IF ch[k] = Shared THEN K + 1 ELSE OwnId(k)
      pre(x) == IF lead THEN <<x>> ELSE <<>>
      leafrecs == SelectSeq([r \in 1 .. Len(owns) |->
                               [node |-> K + r, t |-> ch[owns[r]].t, w |-> ch[owns[r]].w]],
                            LAMBDA x : x.t # -1)
      recs == <<[node |-> K, t |-> 0, w |-> FromInt(2)]>> \o leafrecs
  IN  Attrs(pre(0) \o [j \in 1 .. n |-> T],
            pre(0) \o [j \in 1 .. n |-> j - 1],
            pre(LEAF) \o [j \in 1 .. n |-> IF j <= K THEN BRANCH_EQ ELSE LEAF],
            pre(0) \o [j \in 1 .. n |-> IF j <= K THEN feat[j] ELSE 0],
            pre(FZero) \o [j \in 1 .. n |-> IF j <= K THEN thr[j] ELSE FZero],
            pre(0) \o [j \in 1 .. n |-> IF j <= K THEN TrueId(j) ELSE 0],
            pre(0) \o [j \in 1 .. n |-> IF j <= K THEN j ELSE 0],
            pre(0) \o [j \in 1 .. n |-> IF j <= K THEN miss[j] ELSE 0],
            pre(0) \o [r \in 1 .. Len(recs) |-> T],
            pre(0) \o [r \in 1 .. Len(recs) |-> recs[r].node],
            pre(0) \o [r \in 1 .. Len(recs) |-> recs[r].t],
            pre(FromInt(1)) \o [r \in 1 .. Len(recs) |-> recs[r].w],
            2)

\* Two branches of any two modes: node 0 (false child 1, true child 2) and
\* node 1 (false child 3, true child 4) over the leaves 2, 3, 4.
BranchModes == {BRANCH_LEQ, BRANCH_LT, BRANCH_GTE, BRANCH_GT, BRANCH_EQ, BRANCH_NEQ}

ModeVals == {FromInt(1), FHalf}

ModeAttrs(m0, m1, t0, t1, k0, k1) ==
  Attrs(<<0, 0, 0, 0, 0>>, <<0, 1, 2, 3, 4>>, <<m0, m1, LEAF, LEAF, LEAF>>,
        <<0, 0, 0, 0, 0>>, <<t0, t1, FZero, FZero, FZero>>,
        <<2, 4, 0, 0, 0>>, <<1, 3, 0, 0, 0>>, <<k0, k1, 0, 0, 0>>,
        <<0, 0, 0>>, <<2, 3, 4>>, <<0, 0, 0>>, <<FromInt(1), FromInt(2), FromInt(3)>>,
        1)


(***************************************************************************)
(* State.                                                                  *)
(***************************************************************************)
VARIABLES
  attrs,                \* the attributes Init is called with
  status,               \* "new", then how Init ended: "ok" | "throw" | "crash" | "hang"
  nodes_,               \* the compiled node array
  weights_,             \* the weights table
  roots_,               \* positions in nodes_ of the tree roots
  same_mode_,
  has_missing_tracks_,
  max_feature_id_,
  n_trees_,
  agg,                  \* the ComputeAgg call in progress
  walk,                 \* the ProcessTreeNodeLeave call in progress
  ev,                   \* the evaluation of a batch by ComputeAgg in progress
  f8,                   \* the float 8 conversion, or the Cast / QuantizeLinear kernel
  cls                   \* the members TreeEnsembleCommonClassifier::Init adds

vars == <<attrs, status, nodes_, weights_, roots_, same_mode_, has_missing_tracks_,
          max_feature_id_, n_trees_, agg, walk, ev, f8, cls>>

forest == <<attrs, status, nodes_, weights_, roots_, same_mode_, has_missing_tracks_,
            max_feature_id_, n_trees_>>

NoAgg == [pc |-> "idle", shape |-> <<>>, N |-> 0, stride |-> 0, C |-> 0]

NoWalk == [pc |-> "idle", root |-> 0, cur |-> 0, x_data |-> <<>>, cmp |-> ""]

NoEv == [pc |-> "idle"]

NoF8 == [pc |-> "idle"]

NoCls == [pc |-> "idle"]

\* Stumps: T trees of three nodes, a BRANCH_LEQ root on feature 0 with
\* threshold 2 and its two leaves; nt targets; every leaf has one record whose
\* weight is a power of 4 of its own, so that a sum of weights tells which
\* leaves it holds and how often; the thresholds Init is called with are
\* small enough for the forests and batches explored to meet every section
Pow4(k) == Pow2(2 * k)

ParallelTree == 2

ParallelTreeN == 2

ParallelN == 2

StumpAttrs(T, nt) ==
  Attrs([k \in 1 .. 3 * T |-> (k - 1) \div 3],
        [k \in 1 .. 3 * T |-> (k - 1) % 3],
        [k \in 1 .. 3 * T |-> IF (k - 1) % 3 = 0 THEN BRANCH_LEQ ELSE LEAF],
        [k \in 1 .. 3 * T |-> 0],
        [k \in 1 .. 3 * T |-> IF (k - 1) % 3 = 0 THEN FromInt(2) ELSE FZero],
        [k \in 1 .. 3 * T |-> IF (k - 1) % 3 = 0 THEN 1 ELSE 0],
        [k \in 1 .. 3 * T |-> IF (k - 1) % 3 = 0 THEN 2 ELSE 0],
        [k \in 1 .. 3 * T |-> 0],
        [r \in 1 .. 2 * T |-> (r - 1) \div 2],
        [r \in 1 .. 2 * T |-> 1 + ((r - 1) % 2)],
        [r \in 1 .. 2 * T |-> (((r - 1) \div 2) + ((r - 1) % 2)) % nt],
        [r \in 1 .. 2 * T |-> FromInt(Pow4(r - 1))],
        nt)
    @@ [parallel_tree |-> ParallelTree, parallel_tree_N |-> ParallelTreeN,
        parallel_N |-> ParallelN, base_values |-> <<>>]

\* attrs is drawn from one of the families
TopoFamily == \E l \in TopoShapes : attrs = TopoAttrs(l)

BadFamily ==
  \E b \in {0, 1}, ids \in BadNodeIds, t \in BadTreeIds,
     tru \in 0 .. NBad, fal \in 0 .. NBad :
    attrs = BadAttrs(b, ids, t, tru, fal)

FoldFamily ==
  \E lead \in BOOLEAN, thr \in FoldThresholds, feat \in FoldFeats,
     miss \in FoldMiss, ch \in FoldKinds :
    attrs = FoldAttrs(lead, thr, feat, miss, ch)

ModeFamily ==
  \E m0 \in BranchModes, m1 \in BranchModes, t0 \in ModeVals, t1 \in ModeVals,
     k0 \in {0, 1}, k1 \in {0, 1} :
    attrs = ModeAttrs(m0, m1, t0, t1, k0, k1)

\* Two-node chains of BRANCH_EQ and BRANCH_LEQ nodes whose thresholds are
\* integers inside and outside 1 .. BITCOUNT, fractions and NaN (BITCOUNT
\* itself is left out: its mask, bit 31, does not fit a signed 32-bit integer)
EqModes == {BRANCH_EQ, BRANCH_LEQ}

EqVals == {FromInt(1), FromInt(BITCOUNT - 1), FromInt(BITCOUNT + 1), FZero, FHalf,
           Float(127, Pow2(22)), FNaN}

EqFamily ==
  \E m0 \in EqModes, m1 \in EqModes, t0 \in EqVals, t1 \in EqVals,
     k0 \in {0, 1}, k1 \in {0, 1} :
    attrs = ModeAttrs(m0, m1, t0, t1, k0, k1)

\* Two trees listed in any interleaving: own[k] says which of the two trees
\* the k-th listed node belongs to, ta and tb are their tree ids.  A tree of
\* one node is a leaf; a tree of three nodes is a BRANCH_LEQ node, listed
\* first, with two leaves.  Node ids count the nodes of a tree in the order
\* listed, and every leaf has one record.
MixSizes == {2, 4, 6}

MixTreeIds == {0, 1, 2}

MixOwners ==
  UNION {{own \in [1 .. n -> {0, 1}] :
            \A x \in {0, 1} : Cardinality({k \in 1 .. n : own[k] = x}) \in {1, 3}} :
         n \in MixSizes}

MixAttrs(own, ta, tb) ==
  LET n == Len(own)
      rank(k) == Cardinality({j \in 1 .. k : own[j] = own[k]}) - 1
      size(k) == Cardinality({j \in 1 .. n : own[j] = own[k]})
      branch(k) == size(k) = 3 /\ rank(k) = 0
      tree(k) == IF own[k] = 0 THEN ta ELSE tb
      leafs == Pick(n, [k \in 1 .. n |-> ~branch(k)], 1)
  IN  Attrs([k \in 1 .. n |-> tree(k)],
            [k \in 1 .. n |-> rank(k)],
            [k \in 1 .. n |-> IF branch(k) THEN BRANCH_LEQ ELSE LEAF],
            [k \in 1 .. n |-> 0],
            [k \in 1 .. n |-> IF branch(k) THEN FromInt(1) ELSE FZero],
            [k \in 1 .. n |-> IF branch(k) THEN 1 ELSE 0],
            [k \in 1 .. n |-> IF branch(k) THEN 2 ELSE 0],
            [k \in 1 .. n |-> 0],
            [r \in 1 .. Len(leafs) |-> tree(leafs[r])],
            [r \in 1 .. Len(leafs) |-> rank(leafs[r])],
            [r \in 1 .. Len(leafs) |-> 0],
            [r \in 1 .. Len(leafs) |-> FromInt(leafs[r])],
            1)

MixFamily ==
  \E own \in MixOwners, ta \in MixTreeIds, tb \in MixTreeIds :
    ta # tb /\ attrs = MixAttrs(own, ta, tb)

Inputs == TopoFamily \/ BadFamily \/ FoldFamily \/ ModeFamily

\* the members before Init has run
Fresh ==
  /\ status = "new"
  /\ nodes_ = <<>>
  /\ weights_ = <<>>
  /\ roots_ = <<>>
  /\ same_mode_ = TRUE
  /\ has_missing_tracks_ = FALSE
  /\ max_feature_id_ = 0
  /\ n_trees_ = 0
  /\ agg = NoAgg
  /\ walk = NoWalk
  /\ ev = NoEv
  /\ f8 = NoF8 /\ cls = NoCls

Init == Inputs /\ Fresh
\* what a read of *indices.end() can do
EndReads == {"true", "false", "crash"}

\* the members Init leaves behind, r being what InitResult computed
SetMembers(r) ==
  /\ status' = IF r.err = "" THEN "ok" ELSE r.err
  /\ nodes_' = r.nodes
  /\ weights_' = r.weights
  /\ roots_' = r.roots
  /\ max_feature_id_' = r.maxf
  /\ n_trees_' = Len(r.roots)

\* TreeEnsembleCommon::Init
TreeEnsembleInit ==
  /\ status = "new"
  /\ \E ub \in EndReads : SetMembers(InitResult(attrs, ub))
  /\ same_mode_' = SameMode(attrs)
  /\ has_missing_tracks_' = HasMissingTracks(attrs)
  /\ UNCHANGED <<attrs, agg, walk, ev, f8, cls>>

(***************************************************************************)
(* ComputeAgg: the shape checks that precede every walk.                   *)
(***************************************************************************)
Dims == 1 .. MaxDim

Shapes == UNION {[1 .. r -> Dims] : r \in 1 .. 3}

NumDimensions(shape) == Len(shape)

ComputeAggCheck(shape) ==
  LET stride == IF NumDimensions(shape) = 1 THEN shape[1] ELSE shape[2]
      N == IF NumDimensions(shape) = 1 THEN 1 ELSE shape[1]
      C == IF NumDimensions(shape) = 2 THEN shape[2] ELSE 1
  IN  [pc |-> IF NumDimensions(shape) > 2 THEN "throw"
              ELSE IF max_feature_id_ >= C THEN "throw"
              ELSE "run",
       shape |-> shape, N |-> N, stride |-> stride, C |-> C]

ComputeAgg ==
  /\ status = "ok"
  /\ agg.pc = "idle"
  /\ \E shape \in Shapes : agg' = ComputeAggCheck(shape)
  /\ UNCHANGED <<forest, walk, ev, f8, cls>>

(***************************************************************************)
(* ProcessTreeNodeLeave: one loop iteration per step.                      *)
(***************************************************************************)
FeatVals == {FHalf, FromInt(1), FromInt(2), FromInt(3), FNaN}

\* val CMP threshold for the comparator of mode m
Compare(m, val, threshold) ==
  CASE m = BRANCH_LEQ -> FLeq(val, threshold)
    [] m = BRANCH_LT -> FLt(val, threshold)
    [] m = BRANCH_GTE -> FGeq(val, threshold)
    [] m = BRANCH_GT -> FGt(val, threshold)
    [] m = BRANCH_EQ -> FEq(val, threshold)
    [] m = BRANCH_NEQ -> FNeq(val, threshold)
    [] m = BRANCH_MEMBER -> SetMembershipCheck(val, threshold)
    [] OTHER -> FALSE

\* the successor of branch root under the loop selected by cmp: the mode of
\* the tree root in the same-mode loops, "switch" in the per-node loop
NextNode(pos, x_data, cmp) ==
  LET root == At(nodes_, pos)
      val == At(x_data, root.feature_id)
      m == IF cmp = "switch" THEN mode(root) ELSE cmp
      missing == IF cmp = "switch" \/ has_missing_tracks_
                 THEN is_missing_track_true(root) /\ isnan(val)
                 ELSE FALSE
  IN  IF Compare(m, val, root.value_or_unique_weight) \/ missing
      THEN root.ptr ELSE pos + 1

\* x_data: a row that a ComputeAgg call whose checks passed hands to a walk,
\* cut to the features 0 .. max_feature_id_ (no node carries a larger feature
\* id, so no walk reads past them)
Rows == [1 .. max_feature_id_ + 1 -> FeatVals]

ProcessTreeNodeLeave ==
  /\ status = "ok"
  /\ walk.pc \in {"idle", "done"}
  /\ \E j \in 1 .. Len(roots_), x \in Rows :
       walk' = [pc |-> "loop", root |-> roots_[j], cur |-> roots_[j], x_data |-> x,
                cmp |-> IF same_mode_ THEN mode(At(nodes_, roots_[j])) ELSE "switch"]
  /\ UNCHANGED <<forest, agg, ev, f8, cls>>

WalkStep ==
  /\ walk.pc = "loop"
  /\ is_not_leaf(At(nodes_, walk.cur)) /\ walk.cmp # LEAF
  /\ walk' = [walk EXCEPT !.cur = NextNode(walk.cur, walk.x_data, walk.cmp)]
  /\ UNCHANGED <<forest, agg, ev, f8, cls>>

WalkReturn ==
  /\ walk.pc = "loop"
  /\ ~is_not_leaf(At(nodes_, walk.cur)) \/ walk.cmp = LEAF
  /\ walk' = [walk EXCEPT !.pc = "done"]
  /\ UNCHANGED <<forest, agg, ev, f8, cls>>

\* the indices of x_data that the iteration at node pos reads: the same-mode
\* loops read x_data[root->feature_id] inside while (root->is_not_leaf()),
\* the per-node loop reads it before the switch on the mode, leaf or not
RowReads(pos, cmp) ==
  IF cmp = "switch" THEN {At(nodes_, pos).feature_id}
  ELSE IF cmp # LEAF /\ is_not_leaf(At(nodes_, pos)) THEN {At(nodes_, pos).feature_id}
  ELSE {}

\* Init followed by single-row walks
Next ==
  \/ TreeEnsembleInit
  \/ ProcessTreeNodeLeave
  \/ WalkStep
  \/ WalkReturn

Spec == Init /\ [][Next]_vars

\* The walks over the forests of the topology family, whose child links are
\* any; a walk that has started keeps running, no step of it waits for anything
TopoInit == TopoFamily /\ Fresh

FairSpec ==
  TopoInit /\ [][Next]_vars /\ WF_vars(WalkStep) /\ WF_vars(WalkReturn)

\* Init alone
EqInit == (EqFamily \/ FoldFamily) /\ Fresh

SpecEq == EqInit /\ [][TreeEnsembleInit]_vars

MixInit == MixFamily /\ Fresh

SpecMix == MixInit /\ [][TreeEnsembleInit]_vars

NextInit == TreeEnsembleInit

SpecInit == Init /\ [][NextInit]_vars

\* Init followed by the entry checks of ComputeAgg
NextAgg ==
  \/ TreeEnsembleInit
  \/ ComputeAgg

SpecAgg == Init /\ [][NextAgg]_vars

(***************************************************************************)
(* ComputeAgg: the section that evaluates the batch.                       *)
(***************************************************************************)
\* what the kernels hand to Init as parallel_tree, parallel_tree_N, parallel_N
KernelParallelTree == 80

KernelParallelTreeN == 128

KernelParallelN == 50

\* the chain of tests of lines 564-775 for nt = n_targets_or_classes_, N rows,
\* T = n_trees_ and P = max_num_threads; the sections A2 .. E2 of the second
\* half are named like those of the first
Section(nt, N, T, P, parallel_tree, parallel_N) ==
  IF nt = 1
  THEN IF N = 1
       THEN IF T <= parallel_tree \/ P = 1 THEN "A" ELSE "B"
       ELSE IF N <= parallel_N \/ P = 1 THEN "C"
       ELSE IF T > P THEN "D"
       ELSE "E"
  ELSE IF N = 1
       THEN IF T <= parallel_tree \/ P = 1 THEN "A" ELSE "B"
       ELSE IF N <= parallel_N \/ P = 1 THEN "C"
       ELSE IF T >= P THEN "D"
       ELSE "E"

\* The sizes the selection is tried on: around the thresholds of the kernels
\* and around each other
SectionRows == {1, 2, KernelParallelN, KernelParallelN + 1}

SectionTrees == {1, 2, 3, KernelParallelTree, KernelParallelTree + 1,
                 KernelParallelTree + 2}

SectionThreads == {1, 2, 3, KernelParallelTree, KernelParallelTree + 1,
                   KernelParallelTree + 2}

\* the members before Init has run, no call in progress
FreshForest ==
  /\ status = "new" /\ nodes_ = <<>> /\ weights_ = <<>> /\ roots_ = <<>>
  /\ same_mode_ = TRUE /\ has_missing_tracks_ = FALSE
  /\ max_feature_id_ = 0 /\ n_trees_ = 0
  /\ agg = NoAgg /\ walk = NoWalk

SectionInit ==
  /\ FreshForest
  /\ f8 = NoF8 /\ cls = NoCls
  /\ \E nt \in {1, 2}, N \in SectionRows, T \in SectionTrees, P \in SectionThreads :
       /\ attrs = StumpAttrs(1, nt)
       /\ ev = [pc |-> "call", nt |-> nt, N |-> N, T |-> T, P |-> P]

SelectSection ==
  /\ ev.pc = "call"
  /\ ev' = [ev EXCEPT !.pc = "section"] @@
           [section |-> Section(ev.nt, ev.N, ev.T, ev.P,
                                KernelParallelTree, KernelParallelN)]
  /\ UNCHANGED <<forest, agg, walk, f8, cls>>

NextSection == SelectSection

SpecSection == SectionInit /\ [][NextSection]_vars

(***************************************************************************)
(* ComputeAgg: the evaluation of the batch, section by section.  The       *)
(* aggregator is the SUM aggregator without base values nor post           *)
(* transform; a score is a ScoreValue, the scores of a row one ScoreValue   *)
(* when there is one target and a vector of them otherwise.                *)
(***************************************************************************)
MaxTrees == 3

MaxRows == 3

MaxThreads == 3

n_targets_or_classes_ == attrs.n_targets_or_classes

ScoreZero == [score |-> FZero, has_score |-> 0]

\* a + b for floats that hold small non-negative integers
FAdd(a, b) ==
  IF ToInt(a) + ToInt(b) = 0 THEN FZero ELSE FromInt(ToInt(a) + ToInt(b))

ProcessTreeNodePrediction1(predictions, root) ==
  [predictions EXCEPT !.score = FAdd(@, root.value_or_unique_weight)]

RECURSIVE ProcessTreeNodePrediction(_, _, _)
ProcessTreeNodePrediction(predictions, weight, n_weights) ==
  IF n_weights = 0 THEN predictions
  ELSE ProcessTreeNodePrediction(
         [predictions EXCEPT ![At(weights_, weight).i + 1] =
            [score |-> FAdd(@.score, At(weights_, weight).value), has_score |-> 1]],
         weight + 1, n_weights - 1)

MergePrediction1(predictions, predictions2) ==
  [predictions EXCEPT !.score = FAdd(@, predictions2.score)]

MergePrediction(predictions, predictions2) ==
  [k \in 1 .. Len(predictions) |->
     IF predictions2[k].has_score = 1
     THEN [score |-> FAdd(predictions[k].score, predictions2[k].score), has_score |-> 1]
     ELSE predictions[k]]

FinalizeScores1(predictions) == <<predictions.score>>

FinalizeScores(predictions) ==
  [k \in 1 .. Len(predictions) |->
     IF predictions[k].has_score = 1 THEN predictions[k].score ELSE FZero]

\* ProcessTreeNodeLeave run to its return: the leaf the walk from pos ends in
RECURSIVE Leave(_, _, _, _)
Leave(pos, x_data, cmp, fuel) ==
  IF ~is_not_leaf(At(nodes_, pos)) \/ cmp = LEAF \/ fuel = 0 THEN At(nodes_, pos)
  ELSE Leave(NextNode(pos, x_data, cmp), x_data, cmp, fuel - 1)

\* *ProcessTreeNodeLeave(roots_[j], x_data)
LeaveOfTree(j, x_data) ==
  Leave(At(roots_, j), x_data,
        IF same_mode_ THEN mode(At(nodes_, At(roots_, j))) ELSE "switch",
        Len(nodes_))

\* the prediction of tree j on row x_data added to the scores of a row
Predict(scores, leaf) ==
  IF n_targets_or_classes_ = 1
  THEN ProcessTreeNodePrediction1(scores, leaf)
  ELSE ProcessTreeNodePrediction(scores, leaf.weight, leaf.n_weights)

Merge(scores, scores2) ==
  IF n_targets_or_classes_ = 1
  THEN MergePrediction1(scores, scores2)
  ELSE MergePrediction(scores, scores2)

Finalize(scores) ==
  IF n_targets_or_classes_ = 1 THEN FinalizeScores1(scores) ELSE FinalizeScores(scores)

\* std::vector<ScoreValue>(n): zeroes; std::vector<InlinedVector<..>>(n): empty
\* vectors
NewScores(n) ==
  [k \in 1 .. n |-> IF n_targets_or_classes_ = 1 THEN ScoreZero ELSE <<>>]

\* v.resize(n_targets_or_classes_, {0, 0}): the elements v has are kept
Resize(v) ==
  [k \in 1 .. n_targets_or_classes_ |-> IF k <= Len(v) THEN v[k] ELSE ScoreZero]

\* std::fill(v.begin(), v.end(), {0, 0})
Fill(v) == [k \in 1 .. Len(v) |-> ScoreZero]

\* for (j = lo; j < hi; ++j) the prediction of tree j on x_data goes to scores
RECURSIVE TreesInto(_, _, _, _)
TreesInto(scores, lo, hi, x_data) ==
  IF lo >= hi THEN scores
  ELSE TreesInto(Predict(scores, LeaveOfTree(lo, x_data)), lo + 1, hi, x_data)

\* ThreadPool::PartitionWork
PartitionWork(batch_idx, num_batches, total_work) ==
  LET work_per_batch == total_work \div num_batches
      work_per_batch_extra == total_work % num_batches
      start == IF batch_idx < work_per_batch_extra
               THEN (work_per_batch + 1) * batch_idx
               ELSE work_per_batch * batch_idx + work_per_batch_extra
  IN  [start |-> start,
       end |-> IF batch_idx < work_per_batch_extra
               THEN start + work_per_batch + 1
               ELSE start + work_per_batch]

Min(a, b) == IF a <= b THEN a ELSE b


\* the values of feature 0 in the batches explored: either side of the
\* threshold of the stumps
EvalVals == {FromInt(1), FromInt(3)}

\* x_data + i * stride, for the batches of one feature per row
RowOf(X, i) == <<At(X, i)>>

\* {0, 0}, or a vector of them
ZeroScores == IF n_targets_or_classes_ = 1 THEN ScoreZero ELSE Resize(<<>>)

\* for (i = lo; i < hi; ++i) scores[off + i] is reset: {0, 0} for one target,
\* and otherwise resize(n, {0, 0}) in the parallel sections, std::fill in C2
RECURSIVE ResetRows(_, _, _, _, _)
\* ResetRows that leaves a ScoreValue as it is
ResetRows_Keep(scores, off, lo, hi, fill) ==
  IF lo >= hi THEN scores
  ELSE ResetRows([scores EXCEPT ![off + lo + 1] =
                    IF n_targets_or_classes_ = 1 THEN @
                    ELSE IF fill THEN @ ELSE Resize(@)],
                 off, lo + 1, hi, fill)

ResetRows(scores, off, lo, hi, fill) ==
  IF lo >= hi THEN scores
  ELSE ResetRows([scores EXCEPT ![off + lo + 1] =
                    IF n_targets_or_classes_ = 1 THEN ScoreZero
                    ELSE IF fill THEN Fill(@) ELSE Resize(@)],
                 off, lo + 1, hi, fill)

\* for (i = lo; i < hi; ++i) the prediction of tree j on row i goes to
\* scores[off + i]
RECURSIVE RowsInto(_, _, _, _, _, _)
RowsInto(scores, off, j, lo, hi, X) ==
  IF lo >= hi THEN scores
  ELSE RowsInto([scores EXCEPT ![off + lo + 1] =
                   Predict(@, LeaveOfTree(j, RowOf(X, lo)))],
                off, j, lo + 1, hi, X)

\* for (j = jlo; j < jhi; ++j) for (i = lo; i < hi; ++i) ...
RECURSIVE TreesRowsInto(_, _, _, _, _, _, _)
TreesRowsInto(scores, off, jlo, jhi, lo, hi, X) ==
  IF jlo >= jhi THEN scores
  ELSE TreesRowsInto(RowsInto(scores, off, jlo, lo, hi, X),
                     off, jlo + 1, jhi, lo, hi, X)

\* for (i = lo; i < hi; ++i) FinalizeScores(z_data + i, scores[off + i])
RECURSIVE FinalizeRows(_, _, _, _, _)
FinalizeRows(z, scores, off, lo, hi) ==
  IF lo >= hi THEN z
  ELSE FinalizeRows([z EXCEPT ![lo + 1] = Finalize(At(scores, off + lo))],
                    scores, off, lo + 1, hi)

\* for (j = lo; j < hi; ++j) MergePrediction(predictions, scores[j * step + i])
RECURSIVE MergeInto(_, _, _, _, _, _)
MergeInto(predictions, scores, i, step, lo, hi) ==
  IF lo >= hi THEN predictions
  ELSE MergeInto(Merge(predictions, At(scores, lo * step + i)),
                 scores, i, step, lo + 1, hi)

\* the part of the items of the parallel-for par that worker batch_num of nw
\* takes: trees in the tree phases, rows otherwise
Range(par, batch_num, nw, N) ==
  PartitionWork(batch_num, nw, IF par \in {"B", "Dtree"} THEN n_trees_ ELSE N)

HasReset(par) == par = "Dtree" \/ (par = "B" /\ n_targets_or_classes_ # 1)

Workers(par, nw, N) ==
  [b \in 1 .. nw |->
     [pc |-> IF HasReset(par) THEN "reset"
             ELSE IF Range(par, b - 1, nw, N).start >= Range(par, b - 1, nw, N).end
                  THEN "done"
             ELSE "work",
      k |-> Range(par, b - 1, nw, N).start]]

\* a parallel-for is entered: its workers are ready, nothing is accessed
\* yet; treedone holds the workers of the tree phases that are done, by the
\* chunk (its first row) they worked on
StartFor(e, par, nw) ==
  [e EXCEPT !.pc = "for", !.par = par, !.wk = Workers(par, nw, e.N),
            !.wrs = {}, !.rds = {},
            !.treedone = IF par \in {"B", "Dtree"}
                         THEN @ \cup {<<e.begin_n, b - 1>> :
                                        b \in {w \in 1 .. nw :
                                                 Workers(par, nw, e.N)[w].pc = "done"}}
                         ELSE @]

\* the call before the section is entered
Call(section, N, P, X) ==
  [pc |-> "serial", section |-> section, N |-> N, P |-> P, X |-> X,
   num_threads |-> 0, scores |-> <<>>, z |-> [i \in 1 .. N |-> <<>>],
   begin_n |-> 0, end_n |-> 0, par |-> "", wk |-> <<>>,
   wrs |-> {}, rds |-> {}, treedone |-> {}]

\* the section up to its first loop or parallel-for
Enter(e) ==
  CASE e.section = "A" -> e
    [] e.section = "B" ->
         LET nw == IF n_targets_or_classes_ = 1 THEN e.P ELSE Min(e.P, n_trees_)
         IN  StartFor([e EXCEPT !.num_threads = nw,
                                !.scores = NewScores(IF n_targets_or_classes_ = 1
                                                     THEN n_trees_ ELSE nw)],
                      "B", nw)
    [] e.section = "C" ->
         [e EXCEPT !.scores = ResetRows(NewScores(attrs.parallel_tree_N), 0, 0,
                                        Min(e.N, attrs.parallel_tree_N), FALSE),
                   !.end_n = Min(e.N, attrs.parallel_tree_N)]
    [] e.section = "D" ->
         StartFor([e EXCEPT !.num_threads = Min(e.P, n_trees_),
                            !.scores = NewScores(Min(e.P, n_trees_) * e.N),
                            !.end_n = Min(e.N, attrs.parallel_tree_N)],
                  "Dtree", Min(e.P, n_trees_))
    [] e.section = "E" ->
         LET nw == IF n_targets_or_classes_ = 1 THEN e.P ELSE Min(e.P, e.N)
         IN  StartFor([e EXCEPT !.num_threads = nw], "E", nw)

Batches == UNION {[1 .. N -> EvalVals] : N \in 1 .. MaxRows}

\* ComputeAgg is called with a batch X of N rows and a pool of P threads
ComputeAggEval ==
  /\ status = "ok"
  /\ ev.pc \in {"idle", "done"}
  /\ \E X \in Batches, P \in 1 .. MaxThreads :
       ev' = Enter(Call(Section(n_targets_or_classes_, Len(X), n_trees_, P,
                                attrs.parallel_tree, attrs.parallel_N),
                        Len(X), P, X))
  /\ UNCHANGED <<forest, agg, walk, f8, cls>>


\* section A: the trees one after the other into one score
SectionA ==
  /\ ev.pc = "serial" /\ ev.section = "A"
  /\ ev' = [ev EXCEPT !.pc = "done",
                      !.z[1] = Finalize(TreesInto(ZeroScores, 0, n_trees_,
                                                  RowOf(ev.X, 0)))]
  /\ UNCHANGED <<forest, agg, walk, f8, cls>>

\* the end of an iteration of the loop over the batches of section C, scores
\* being what the loop over the trees left
BatchEnd(e, scores) ==
  [e EXCEPT !.scores = scores,
            !.z = FinalizeRows(@, scores, 0 - e.begin_n, e.begin_n, e.end_n),
            !.begin_n = @ + attrs.parallel_tree_N,
            !.end_n = Min(e.N, e.begin_n + 2 * attrs.parallel_tree_N),
            !.pc = IF e.begin_n + attrs.parallel_tree_N < e.N THEN "serial" ELSE "done"]

\* section C: one iteration of the loop over the batches
SectionC ==
  /\ ev.pc = "serial" /\ ev.section = "C"
  /\ ev' = BatchEnd(ev, TreesRowsInto(ResetRows(ev.scores, 0 - ev.begin_n,
                                                ev.begin_n, ev.end_n, TRUE),
                                      0 - ev.begin_n, 0, n_trees_,
                                      ev.begin_n, ev.end_n, ev.X))
  /\ UNCHANGED <<forest, agg, walk, f8, cls>>

\* Off without batch_num * N
Off_Shared(e, batch_num, k) ==
  IF e.par = "Dtree" THEN 0
  ELSE IF n_targets_or_classes_ = 1 THEN k
  ELSE batch_num

\* The slots of scores a worker of a tree phase uses for tree k: scores[k] in
\* B, scores[batch_num] in B2, scores[batch_num * N + i] for the rows i of the
\* chunk in D and D2
Off(e, batch_num, k) ==
  IF e.par = "Dtree" THEN batch_num * e.N
  ELSE IF n_targets_or_classes_ = 1 THEN k
  ELSE batch_num

Lo(e) == IF e.par = "Dtree" THEN e.begin_n ELSE 0

Hi(e) == IF e.par = "Dtree" THEN e.end_n ELSE 1

Slots(e, batch_num, k) ==
  {<<batch_num, "scores", Off(e, batch_num, k) + i>> : i \in Lo(e) .. Hi(e) - 1}

\* the worker after the step that takes it to item k
Advance(e, b, k) ==
  [pc |-> IF k >= Range(e.par, b - 1, Len(e.wk), e.N).end THEN "done" ELSE "work",
   k |-> k]

\* the worker of a tree phase that reaches its end is done
TreeDone(e, b, w) ==
  IF e.par \in {"B", "Dtree"} /\ w.pc = "done"
  THEN e.treedone \cup {<<e.begin_n, b - 1>>} ELSE e.treedone

\* the first lines of a worker of B2, D, D2: its slots are reset
WorkerReset(e, b) ==
  [e EXCEPT !.scores = ResetRows(@, Off(e, b - 1, 0), Lo(e), Hi(e), FALSE),
            !.wrs = @ \cup Slots(e, b - 1, 0),
            !.wk[b] = Advance(e, b, e.wk[b].k),
            !.treedone = TreeDone(e, b, Advance(e, b, e.wk[b].k))]

\* one tree of a worker of a tree phase
WorkerTree(e, b, j) ==
  [e EXCEPT !.scores = RowsInto(@, Off(e, b - 1, j), j, Lo(e), Hi(e), e.X),
            !.wrs = @ \cup Slots(e, b - 1, j),
            !.rds = @ \cup Slots(e, b - 1, j),
            !.wk[b] = Advance(e, b, j + 1),
            !.treedone = TreeDone(e, b, Advance(e, b, j + 1))]

\* one row of a worker of the last parallel-for of D, D2: scores[i] receives
\* the scores of the other workers and is finalized
WorkerMerge(e, b, i, merged) ==
  [e EXCEPT !.scores[i + 1] = merged,
            !.z[i + 1] = Finalize(merged),
            !.wrs = @ \cup {<<b - 1, "scores", i>>, <<b - 1, "z", i>>,
                            <<b - 1, "label", i>>},
            !.rds = @ \cup {<<b - 1, "scores", j * e.N + i>> :
                              j \in 0 .. e.num_threads - 1},
            !.wk[b] = Advance(e, b, i + 1)]

\* one row of a worker of E, E2
WorkerRow(e, b, i) ==
  [e EXCEPT !.z[i + 1] = Finalize(TreesInto(ZeroScores, 0, n_trees_, RowOf(e.X, i))),
            !.wrs = @ \cup {<<b - 1, "z", i>>, <<b - 1, "label", i>>},
            !.wk[b] = Advance(e, b, i + 1)]

WorkerNext(e, b) ==
  IF e.wk[b].pc = "reset" THEN WorkerReset(e, b)
  ELSE IF e.par \in {"B", "Dtree"} THEN WorkerTree(e, b, e.wk[b].k)
  ELSE IF e.par = "Dmerge"
  THEN WorkerMerge(e, b, e.wk[b].k,
                   MergeInto(At(e.scores, e.wk[b].k), e.scores, e.wk[b].k, e.N,
                             1, e.num_threads))
  ELSE WorkerRow(e, b, e.wk[b].k)

\* WorkerStep that uses the first entry of weights_ as scratch
WorkerStep_Scratch ==
  /\ ev.pc = "for"
  /\ \E b \in 1 .. Len(ev.wk) :
       /\ ev.wk[b].pc # "done"
       /\ ev' = WorkerNext(ev, b)
  /\ weights_' = [weights_ EXCEPT ![1] = [@ EXCEPT !.value = FZero]]
  /\ UNCHANGED <<attrs, status, nodes_, roots_, same_mode_, has_missing_tracks_,
                 max_feature_id_, n_trees_, agg, walk, f8, cls>>

\* a worker of the running parallel-for takes its next step
WorkerStep ==
  /\ ev.pc = "for"
  /\ \E b \in 1 .. Len(ev.wk) :
       /\ ev.wk[b].pc # "done"
       /\ ev' = WorkerNext(ev, b)
  /\ UNCHANGED <<forest, agg, walk, f8, cls>>

\* AfterFor with the last parallel-for of D inside the loop over the chunks
AfterFor_InLoop(e) ==
  IF e.par = "B" THEN [e EXCEPT !.pc = "merge", !.par = ""]
  ELSE IF e.par = "Dtree"
  THEN StartFor([e EXCEPT !.begin_n = e.end_n,
                          !.end_n = Min(e.N, e.end_n + attrs.parallel_tree_N)],
                "Dmerge", e.num_threads)
  ELSE [e EXCEPT !.pc = "done", !.par = ""]

\* what follows the parallel-for that returned
AfterFor(e) ==
  IF e.par = "B" THEN [e EXCEPT !.pc = "merge", !.par = ""]
  ELSE IF e.par = "Dtree"
  THEN StartFor([e EXCEPT !.begin_n = e.end_n,
                          !.end_n = Min(e.N, e.end_n + attrs.parallel_tree_N)],
                IF e.end_n < e.N THEN "Dtree" ELSE "Dmerge", e.num_threads)
  ELSE [e EXCEPT !.pc = "done", !.par = ""]

\* TrySimpleParallelFor, TryBatchParallelFor return when every worker is done
AllDone(e) == \A b \in 1 .. Len(e.wk) : e.wk[b].pc = "done"

\* the statement after the parallel-for is reached
ParallelForReturn ==
  /\ ev.pc = "for"
  /\ AllDone(ev)
  /\ ev' = AfterFor(ev)
  /\ UNCHANGED <<forest, agg, walk, f8, cls>>

\* B: the scores of the trees are merged into score; B2: the scores of the
\* workers into scores[0]; then the row is finalized
MergeB ==
  /\ ev.pc = "merge"
  /\ ev' = [ev EXCEPT !.pc = "done",
                      !.z[1] = Finalize(IF n_targets_or_classes_ = 1
                                        THEN MergeInto(ScoreZero, ev.scores, 0, 1, 0,
                                                       Len(ev.scores))
                                        ELSE MergeInto(At(ev.scores, 0), ev.scores, 0, 1,
                                                       1, Len(ev.scores)))]
  /\ UNCHANGED <<forest, agg, walk, f8, cls>>

\* The stump forests
StumpFamily ==
  \E T \in 1 .. MaxTrees, nt \in {1, 2} : attrs = StumpAttrs(T, nt)

EvalInit == StumpFamily /\ FreshForest /\ ev = NoEv /\ f8 = NoF8 /\ cls = NoCls

NextEval ==
  \/ TreeEnsembleInit
  \/ ComputeAggEval
  \/ SectionA
  \/ SectionC
  \/ WorkerStep
  \/ ParallelForReturn
  \/ MergeB

SpecEval == EvalInit /\ [][NextEval]_vars

\* A batch evaluation and the walks of another evaluation, run by another
\* thread on the same forest
NextShared ==
  \/ TreeEnsembleInit
  \/ ComputeAggEval
  \/ SectionA
  \/ SectionC
  \/ WorkerStep
  \/ ParallelForReturn
  \/ MergeB
  \/ ProcessTreeNodeLeave
  \/ WalkStep
  \/ WalkReturn

SpecShared == EvalInit /\ [][NextShared]_vars


(***************************************************************************)
(* TreeEnsembleCommonV5: the attributes of the v5 schema (v) are turned    *)
(* into the attributes Init takes.                                         *)
(***************************************************************************)
MaxMember == 3

\* -1 stored as a float: the sign is carried by the sign of the pattern
FMinusOne == 0 - FromInt(1)

\* the values of membership_values from curr_id up to the next NaN
RECURSIVE MembershipRun(_, _)
MembershipRun(membership_values, curr_id) ==
  IF curr_id < Len(membership_values) /\ ~isnan(At(membership_values, curr_id))
  THEN <<At(membership_values, curr_id)>>
         \o MembershipRun(membership_values, curr_id + 1)
  ELSE <<>>

\* membership_values_by_id for the nodes k .. of nodes_modes
RECURSIVE getMembershipValuesById(_, _, _, _)
getMembershipValuesById(membership_values, nodes_modes, k, curr_id) ==
  IF k >= Len(nodes_modes) THEN <<>>
  ELSE IF At(nodes_modes, k) # BRANCH_MEMBER
  THEN <<<<>>>> \o getMembershipValuesById(membership_values, nodes_modes, k + 1, curr_id)
  ELSE <<MembershipRun(membership_values, curr_id)>>
         \o getMembershipValuesById(
              membership_values, nodes_modes, k + 1,
              curr_id + Len(MembershipRun(membership_values, curr_id)) + 1)

\* the vectors transformInputOneTree fills, empty
NoOld ==
  [nodes_nodeids |-> <<>>, nodes_treeids |-> <<>>, nodes_modes |-> <<>>,
   target_class_ids |-> <<>>, target_class_nodeids |-> <<>>,
   target_class_treeids |-> <<>>, target_class_weights |-> <<>>,
   nodes_featureids |-> <<>>, nodes_truenodeids |-> <<>>,
   nodes_falsenodeids |-> <<>>, nodes_values |-> <<>>,
   nodes_missing_value_tracks_true |-> <<>>, ret |-> 0]

\* lines 1266-1288
PushLeaf(v, o, curr_id, curr_treeid, curr_nodeid) ==
  [o EXCEPT !.nodes_nodeids = Append(@, curr_nodeid),
            !.nodes_treeids = Append(@, curr_treeid),
            !.nodes_modes = Append(@, LEAF),
            !.target_class_ids = Append(@, At(v.leaf_targetids, curr_id)),
            !.target_class_nodeids = Append(@, curr_nodeid),
            !.target_class_treeids = Append(@, curr_treeid),
            !.target_class_weights = Append(@, At(v.leaf_weights, curr_id)),
            !.nodes_featureids = Append(@, -1),
            !.nodes_truenodeids = Append(@, -1),
            !.nodes_falsenodeids = Append(@, -1),
            !.nodes_values = Append(@, FMinusOne),
            !.nodes_missing_value_tracks_true =
               IF v.nodes_missing_value_tracks_true # <<>> THEN Append(@, 0) ELSE @,
            !.ret = curr_nodeid]

\* lines 1266-1267 and 1291-1312
PushBranch(v, mvb, o, curr_id, curr_treeid, curr_nodeid, curr_membership_value_id) ==
  [o EXCEPT !.nodes_nodeids = Append(@, curr_nodeid),
            !.nodes_treeids = Append(@, curr_treeid),
            !.nodes_featureids = Append(@, At(v.nodes_featureids, curr_id)),
            !.nodes_missing_value_tracks_true =
               IF v.nodes_missing_value_tracks_true # <<>>
               THEN Append(@, At(v.nodes_missing_value_tracks_true, curr_id)) ELSE @,
            !.nodes_modes =
               Append(@, IF At(v.nodes_modes, curr_id) = BRANCH_MEMBER
                         THEN BRANCH_EQ ELSE At(v.nodes_modes, curr_id)),
            !.nodes_values =
               Append(@, IF At(v.nodes_modes, curr_id) = BRANCH_MEMBER
                         THEN At(At(mvb, curr_id), curr_membership_value_id)
                         ELSE At(v.nodes_splits, curr_id)),
            !.nodes_falsenodeids = Append(@, 0),
            !.nodes_truenodeids = Append(@, curr_nodeid + 1)]

RECURSIVE transformInputOneTree(_, _, _, _, _, _, _, _)

\* lines 1321-1346, o being what the true subtree left and falsenodeid_id
\* the place of the false node id to set
FalseSubtree(v, mvb, o, curr_id, curr_treeid, curr_membership_value_id, falsenodeid_id) ==
  IF /\ At(v.nodes_modes, curr_id) = BRANCH_MEMBER
     /\ curr_membership_value_id + 1 < Len(At(mvb, curr_id))
  THEN transformInputOneTree(
         v, mvb, [o EXCEPT !.nodes_falsenodeids[falsenodeid_id + 1] = o.ret + 1],
         curr_id, curr_treeid, o.ret + 1, curr_membership_value_id + 1, FALSE)
  ELSE transformInputOneTree(
         v, mvb, [o EXCEPT !.nodes_falsenodeids[falsenodeid_id + 1] = o.ret + 1],
         At(v.nodes_falsenodeids, curr_id), curr_treeid, o.ret + 1, 0,
         At(v.nodes_falseleafs, curr_id) # 0)

transformInputOneTree(v, mvb, o, curr_id, curr_treeid, curr_nodeid, curr_membership_value_id, is_leaf) ==
  IF is_leaf THEN PushLeaf(v, o, curr_id, curr_treeid, curr_nodeid)
  ELSE FalseSubtree(
         v, mvb,
         transformInputOneTree(
           v, mvb,
           PushBranch(v, mvb, o, curr_id, curr_treeid, curr_nodeid,
                      curr_membership_value_id),
           At(v.nodes_truenodeids, curr_id), curr_treeid, curr_nodeid + 1, 0,
           At(v.nodes_trueleafs, curr_id) # 0),
         curr_id, curr_treeid, curr_membership_value_id,
         Len(o.nodes_falsenodeids))

RECURSIVE transformInputAllTrees(_, _, _, _)
transformInputAllTrees(v, mvb, o, curr_treeid) ==
  IF curr_treeid >= Len(v.tree_roots) THEN o
  ELSE transformInputAllTrees(
         v, mvb,
         transformInputOneTree(
           v, mvb, o, At(v.tree_roots, curr_treeid), curr_treeid, 0, 0,
           At(v.nodes_falsenodeids, At(v.tree_roots, curr_treeid))
             = At(v.nodes_truenodeids, At(v.tree_roots, curr_treeid))),
         curr_treeid + 1)

\* the parameters TreeEnsembleCommonV5::Init hands to TreeEnsembleCommon::Init
OldAttrs(o, n_targets) ==
  Attrs(o.nodes_treeids, o.nodes_nodeids, o.nodes_modes, o.nodes_featureids,
        o.nodes_values, o.nodes_truenodeids, o.nodes_falsenodeids,
        o.nodes_missing_value_tracks_true, o.target_class_treeids,
        o.target_class_nodeids, o.target_class_ids, o.target_class_weights,
        n_targets)

TransformInput(v) ==
  OldAttrs(transformInputAllTrees(
             v, getMembershipValuesById(v.membership_values, v.nodes_modes, 0, 0),
             NoOld, 0),
           v.n_targets)

\* TreeEnsembleCommonV5::Init
TreeEnsembleInitV5 ==
  /\ status = "new"
  /\ \E ub \in EndReads : SetMembers(InitResult(TransformInput(attrs), ub))
  /\ same_mode_' = SameMode(TransformInput(attrs))
  /\ has_missing_tracks_' = HasMissingTracks(TransformInput(attrs))
  /\ UNCHANGED <<attrs, agg, walk, ev, f8, cls>>

\* v5 trees: node 0 is a BRANCH_MEMBER node on feature 0 with the membership
\* values vals, whose true child is leaf tl and whose false child is leaf 1
\* (kind "leaf") or node 1; node 1 is a BRANCH_LEQ node (kind "leq") or a
\* BRANCH_MEMBER node with the one value MaxMember + 1, on feature 0 with
\* the true child of node 0 ("same"), on feature 0 with leaf 2 ("other") or
\* on feature 1 ("feature"); its false child is leaf 1.  track is
\* nodes_missing_value_tracks_true of node 0, -1 for an empty attribute.
V5Kinds == {"leaf", "leq", "same", "other", "feature"}

V5Attrs(vals, tl, track, kind) ==
  [nodes_modes |-> IF kind = "leaf" THEN <<BRANCH_MEMBER>>
                   ELSE <<BRANCH_MEMBER,
                          IF kind = "leq" THEN BRANCH_LEQ ELSE BRANCH_MEMBER>>,
   nodes_featureids |-> IF kind = "leaf" THEN <<0>>
                        ELSE <<0, IF kind = "feature" THEN 1 ELSE 0>>,
   nodes_splits |-> IF kind = "leaf" THEN <<FZero>>
                    ELSE <<FZero, IF kind = "leq" THEN FromInt(2) ELSE FZero>>,
   nodes_truenodeids |-> IF kind = "leaf" THEN <<tl>>
                         ELSE <<tl, IF kind = "other" THEN 2 ELSE tl>>,
   nodes_trueleafs |-> IF kind = "leaf" THEN <<1>> ELSE <<1, 1>>,
   nodes_falsenodeids |-> IF kind = "leaf" THEN <<1 - tl>> ELSE <<1, 1 - tl>>,
   nodes_falseleafs |-> IF kind = "leaf" THEN <<1>> ELSE <<0, 1>>,
   nodes_missing_value_tracks_true |->
     IF track = -1 THEN <<>>
     ELSE IF kind = "leaf" THEN <<track>> ELSE <<track, 0>>,
   membership_values |->
     vals \o <<FNaN>> \o
       (IF kind \in {"same", "other", "feature"}
        THEN <<FromInt(MaxMember + 1), FNaN>> ELSE <<>>),
   leaf_targetids |-> <<0, 0, 0>>,
   leaf_weights |-> <<FromInt(1), FromInt(2), FromInt(3)>>,
   tree_roots |-> <<0>>,
   n_targets |-> 1]

\* the membership values of node 0: the values of a non-empty subset of
\* 1 .. MaxMember, in increasing order
MemberSets == (SUBSET (1 .. MaxMember)) \ {{}}

MemberVals(S) ==
  LET keep == Pick(MaxMember, [k \in 1 .. MaxMember |-> k \in S], 1)
  IN  [r \in 1 .. Len(keep) |-> FromInt(keep[r])]

V5Family ==
  \E S \in MemberSets, tl \in {0, 1}, track \in {-1, 0, 1}, kind \in V5Kinds :
    attrs = V5Attrs(MemberVals(S), tl, track, kind)

V5Init == V5Family /\ FreshForest /\ ev = NoEv /\ f8 = NoF8 /\ cls = NoCls

NextV5 == TreeEnsembleInitV5

SpecV5 == V5Init /\ [][NextV5]_vars

\* v5 trees that are one leaf: the root entry names leaf L as its true and
\* as its false child, both marked as leaves; the leaves carry any target
\* ids and weights
RootLeafWeights == {FromInt(1), FromInt(2), FromInt(3)}

V5RootAttrs(L, tids, ws) ==
  [nodes_modes |-> <<BRANCH_LEQ>>, nodes_featureids |-> <<0>>,
   nodes_splits |-> <<FZero>>,
   nodes_truenodeids |-> <<L>>, nodes_trueleafs |-> <<1>>,
   nodes_falsenodeids |-> <<L>>, nodes_falseleafs |-> <<1>>,
   nodes_missing_value_tracks_true |-> <<>>,
   membership_values |-> <<>>,
   leaf_targetids |-> tids, leaf_weights |-> ws,
   tree_roots |-> <<0>>, n_targets |-> 2]

V5RootFamily ==
  \E L \in 0 .. 2, tids \in [1 .. 3 -> {0, 1}], ws \in [1 .. 3 -> RootLeafWeights] :
    attrs = V5RootAttrs(L, tids, ws)

V5RootInit ==
  (V5Family \/ V5RootFamily) /\ FreshForest /\ ev = NoEv /\ f8 = NoF8 /\ cls = NoCls

SpecV5Root == V5RootInit /\ [][NextV5]_vars

\* the v5 Init followed by single-row walks
NextV5Walk ==
  \/ TreeEnsembleInitV5
  \/ ProcessTreeNodeLeave
  \/ WalkStep
  \/ WalkReturn

SpecV5Walk == V5Init /\ [][NextV5Walk]_vars


(***************************************************************************)
(* float8.h: FloatE4M3 and FloatE5M2, the conversion code used without     *)
(* CUDA.  A binary32 value b is the record of its sign bit and of the 31   *)
(* bits below it (abs); val is a uint8_t.                                  *)
(***************************************************************************)
F32(sign, e, m) == [sign |-> sign, abs |-> Float(e, m)]

\* a | b of two unsigned values
RECURSIVE BitOr(_, _)
BitOr(a, b) ==
  IF a = 0 THEN b
  ELSE IF b = 0 THEN a
  ELSE (IF a % 2 = 1 \/ b % 2 = 1 THEN 1 ELSE 0) + 2 * BitOr(a \div 2, b \div 2)

\* m >> k
Shr(m, k) == m \div Pow2(k)

\* the value a uint8_t keeps
U8(n) == n % 256

\* (b & 0x80000000) >> 24
SignByte(b) == b.sign * 128

\* (b & 0x7fc00000) == 0x7fc00000
IsQuietNaNBits(b) == Shr(b.abs, 22) = 511

\* if (bit) val += 1
Rounding(val, bit) == IF bit # 0 THEN U8(val + 1) ELSE val

\* FloatE4M3(float): the branches on the exponent e, val holding the sign
E4M3Narrow(val, e, m) ==
  IF e = 0 THEN val
  ELSE IF e < 117 THEN val
  ELSE IF e < 118 THEN Rounding(BitOr(val, 1), Shr(m, 23) % 2)
  ELSE IF e < 121
  THEN Rounding(BitOr(BitOr(val, Pow2(2 - (120 - e))), Shr(m, 21 + (120 - e))),
                Shr(m, 20 + (120 - e)) % 2)
  ELSE IF e < 136
  THEN Rounding(IF e - 120 = 0
                THEN BitOr(BitOr(val, 4), Shr(m, 21))
                ELSE U8(BitOr(BitOr(val, (e - 120) * 8), Shr(m, 20))),
                Shr(m, 19) % 2)
  ELSE BitOr(val, 126)

FloatE4M3(b) ==
  IF IsQuietNaNBits(b) THEN BitOr(SignByte(b), 255)
  ELSE E4M3Narrow(SignByte(b), FExp(b.abs), FMant(b.abs))

\* one of the steps that normalise the mantissa of a subnormal, top being
\* the bit tested
Normalise(s, top) ==
  IF (s.mant \div top) % 2 = 0
  THEN [mant |-> (s.mant % top) * 2, expo |-> s.expo - 1]
  ELSE s

\* res |= (mant & (top - 1)) << shift; res |= expo << 23
Widened(sign, s, top, shift) == F32(sign, s.expo, (s.mant % top) * Pow2(shift))

FloatE4M3_ToFloat_Once(val) ==
  IF val = 255 THEN F32(1, 255, Pow2(22))
  ELSE IF val = 127 THEN F32(0, 255, Pow2(22))
  ELSE IF Shr(val, 3) % 16 = 0
  THEN IF val % 8 > 0
       THEN Widened(Shr(val, 7), Normalise([mant |-> val % 8, expo |-> 127 - 7], 4),
                    4, 21)
       ELSE F32(Shr(val, 7), 0, 0)
  ELSE F32(Shr(val, 7), (Shr(val, 3) % 16) - 7 + 127, (val % 8) * Pow2(20))

FloatE4M3_ToFloat(val) ==
  IF val = 255 THEN F32(1, 255, Pow2(22))
  ELSE IF val = 127 THEN F32(0, 255, Pow2(22))
  ELSE IF Shr(val, 3) % 16 = 0
  THEN IF val % 8 > 0
       THEN Widened(Shr(val, 7),
                    Normalise(Normalise(Normalise([mant |-> val % 8, expo |-> 127 - 7],
                                                  4), 4), 4),
                    4, 21)
       ELSE F32(Shr(val, 7), 0, 0)
  ELSE F32(Shr(val, 7), (Shr(val, 3) % 16) - 7 + 127, (val % 8) * Pow2(20))

\* FloatE5M2(float): the branches on the exponent e, val holding the sign
E5M2Narrow_NoInf(val, e, m) ==
  IF e = 0 THEN val
  ELSE IF e < 110 THEN val
  ELSE IF e < 111 THEN Rounding(BitOr(val, 1), Shr(m, 23) % 2)
  ELSE IF e < 113
  THEN Rounding(BitOr(BitOr(val, Pow2(1 - (112 - e))), Shr(m, 22 + (112 - e))),
                Shr(m, 21 + (112 - e)) % 2)
  ELSE IF e < 144
  THEN Rounding(U8(BitOr(BitOr(val, (e - 112) * 4), Shr(m, 21))), Shr(m, 20) % 2)
  ELSE BitOr(val, 123)

E5M2Narrow(val, e, m) ==
  IF e = 0 THEN val
  ELSE IF e < 110 THEN val
  ELSE IF e < 111 THEN Rounding(BitOr(val, 1), Shr(m, 23) % 2)
  ELSE IF e < 113
  THEN Rounding(BitOr(BitOr(val, Pow2(1 - (112 - e))), Shr(m, 22 + (112 - e))),
                Shr(m, 21 + (112 - e)) % 2)
  ELSE IF e < 144
  THEN Rounding(U8(BitOr(BitOr(val, (e - 112) * 4), Shr(m, 21))), Shr(m, 20) % 2)
  ELSE IF e = 255 /\ m = 0 THEN BitOr(val, 124)
  ELSE BitOr(val, 123)

FloatE5M2(b) ==
  IF IsQuietNaNBits(b) THEN BitOr(SignByte(b), 255)
  ELSE E5M2Narrow(SignByte(b), FExp(b.abs), FMant(b.abs))

FloatE5M2_ToFloat(val) ==
  IF val >= 253 THEN F32(1, 255, Pow2(22))
  ELSE IF val >= 125 /\ val <= 127 THEN F32(0, 255, Pow2(22))
  ELSE IF val = 252 THEN F32(1, 255, 0)
  ELSE IF val = 124 THEN F32(0, 255, 0)
  ELSE IF Shr(val, 2) % 32 = 0
  THEN IF val % 4 > 0
       THEN Widened(Shr(val, 7),
                    Normalise(Normalise([mant |-> val % 4, expo |-> 127 - 15], 2), 2),
                    2, 22)
       ELSE F32(Shr(val, 7), 0, 0)
  ELSE F32(Shr(val, 7), (Shr(val, 2) % 32) - 15 + 127, (val % 4) * Pow2(21))

Formats == {"E4M3", "E5M2"}

Narrow(fmt, b) == IF fmt = "E4M3" THEN FloatE4M3(b) ELSE FloatE5M2(b)

Widen(fmt, val) == IF fmt = "E4M3" THEN FloatE4M3_ToFloat(val) ELSE FloatE5M2_ToFloat(val)

\* The binary32 inputs: every sign and exponent, the MantTop leading bits of
\* the mantissa (the bits a float8 keeps and the first bits it drops) and
\* the last bit of the mantissa.
MantTop == 4

Mantissas == {top * Pow2(23 - MantTop) + low : top \in 0 .. Pow2(MantTop) - 1, low \in {0, 1}}

\* 65504.0f, the largest binary16 value: (2 - 2^-10) * 2^15
Float65504 == F32(0, 142, 1023 * Pow2(13))

F32Inputs ==
  {F32(sign, e, m) : sign \in {0, 1}, e \in 0 .. 255, m \in Mantissas} \cup {Float65504}

\* FloatE4M3(bits, FromBits()) / FloatE5M2(bits, FromBits())
F8FromBits ==
  /\ f8.pc = "idle"
  /\ \E fmt \in Formats, x \in 0 .. 255 :
       f8' = [pc |-> "bits", fmt |-> fmt, x |-> x, b |-> F32(0, 0, 0), val |-> x]
  /\ UNCHANGED <<forest, agg, walk, ev, cls>>

\* ToFloat()
F8ToFloat ==
  /\ f8.pc = "bits"
  /\ f8' = [f8 EXCEPT !.pc = "float", !.b = Widen(f8.fmt, f8.val)]
  /\ UNCHANGED <<forest, agg, walk, ev, cls>>

\* a float handed to a constructor
F8Input ==
  /\ f8.pc = "idle"
  /\ \E fmt \in Formats, b \in F32Inputs :
       f8' = [pc |-> "float", fmt |-> fmt, x |-> -1, b |-> b, val |-> 0]
  /\ UNCHANGED <<forest, agg, walk, ev, cls>>

\* FloatE4M3(float) / FloatE5M2(float)
F8FromFloat ==
  /\ f8.pc = "float"
  /\ f8' = [f8 EXCEPT !.pc = "narrowed", !.val = Narrow(f8.fmt, f8.b)]
  /\ UNCHANGED <<forest, agg, walk, ev, cls>>

F8Init == attrs = StumpAttrs(1, 1) /\ FreshForest /\ agg = NoAgg /\ walk = NoWalk
          /\ ev = NoEv /\ f8 = NoF8 /\ cls = NoCls

NextF8 == F8FromBits \/ F8ToFloat \/ F8Input \/ F8FromFloat

SpecF8 == F8Init /\ [][NextF8]_vars


(***************************************************************************)
(* cast_op.cc and quantize_linear.cc: the saturate attribute of the Cast   *)
(* and QuantizeLinear kernels.  The attributes, the kernel and the path a  *)
(* Compute call takes are kept in f8.                                      *)
(***************************************************************************)
DataTypes ==
  {"FLOAT", "UINT8", "INT8", "UINT16", "INT16", "INT32", "INT64", "STRING", "BOOL",
   "FLOAT16", "DOUBLE", "UINT32", "UINT64", "BFLOAT16",
   "FLOAT8E4M3FN", "FLOAT8E4M3FNUZ", "FLOAT8E5M2", "FLOAT8E5M2FNUZ"}

\* to != FLOAT8E4M3FN && to != FLOAT8E4M3FNUZ && to != FLOAT8E5M2 && to != FLOAT8E5M2FNUZ
NotFloat8(to) ==
  /\ to # "FLOAT8E4M3FN" /\ to # "FLOAT8E4M3FNUZ"
  /\ to # "FLOAT8E5M2" /\ to # "FLOAT8E5M2FNUZ"

\* the element types T of the QuantizeLinear kernels
QuantizeTypes == {"INT8", "UINT8", "FLOAT8E4M3FN", "FLOAT8E5M2"}

\* Cast::Cast: has_saturate is GetAttr("saturate", &saturate).IsOK()
CastKernel_NoCheck(to, has_saturate, saturate) ==
  [status |-> "ok", saturate_ |-> (IF ~has_saturate THEN 1 ELSE saturate) = 1]

CastKernel(to, has_saturate, saturate) ==
  IF ~has_saturate THEN [status |-> "ok", saturate_ |-> TRUE]
  ELSE IF NotFloat8(to) THEN [status |-> "throw", saturate_ |-> FALSE]
  ELSE [status |-> "ok", saturate_ |-> saturate = 1]

\* QuantizeLinear<T, U>::QuantizeLinear
QuantizeKernel(T, has_saturate, saturate) ==
  IF ~has_saturate THEN [status |-> "ok", saturate_ |-> TRUE]
  ELSE IF NotFloat8(T) THEN [status |-> "throw", saturate_ |-> FALSE]
  ELSE [status |-> "ok", saturate_ |-> saturate = 1]

\* Cast::Compute: the dispatcher a call with an input of type from takes
CastPath(from, to_) ==
  IF from = to_ THEN "Copy" ELSE IF NotFloat8(to_) THEN "Std" ELSE "Sat"

\* CudaQuantizeLinear: the overload enable_if selects for T
QuantizePath(T) == IF T \in {"INT8", "UINT8"} THEN "Std" ELSE "Sat"

\* the attributes a kernel is created with
KernelInfo ==
  /\ f8.pc = "idle"
  /\ \E op \in {"Cast", "QuantizeLinear"}, to \in DataTypes,
        has_saturate \in BOOLEAN, saturate \in 0 .. 2 :
       /\ op = "QuantizeLinear" => to \in QuantizeTypes
       /\ ~has_saturate => saturate = 0
       /\ f8' = [pc |-> "info", op |-> op, to |-> to, has_saturate |-> has_saturate,
                 saturate |-> saturate, saturate_ |-> FALSE, path |-> "", flag |-> FALSE]
  /\ UNCHANGED <<forest, agg, walk, ev, cls>>

\* the kernel f8 holds after the constructor k ran
Constructed(k) ==
  f8' = [f8 EXCEPT !.pc = IF k.status = "ok" THEN "kernel" ELSE "throw",
                   !.saturate_ = k.saturate_]

CastConstruct ==
  /\ f8.pc = "info" /\ f8.op = "Cast"
  /\ Constructed(CastKernel(f8.to, f8.has_saturate, f8.saturate))
  /\ UNCHANGED <<forest, agg, walk, ev, cls>>

QuantizeConstruct ==
  /\ f8.pc = "info" /\ f8.op = "QuantizeLinear"
  /\ Constructed(QuantizeKernel(f8.to, f8.has_saturate, f8.saturate))
  /\ UNCHANGED <<forest, agg, walk, ev, cls>>

\* Cast::Compute; flag is the saturate argument the path receives, FALSE
\* when it receives none
CastCompute ==
  /\ f8.pc = "kernel" /\ f8.op = "Cast"
  /\ \E from \in DataTypes :
       f8' = [f8 EXCEPT !.pc = "computed", !.path = CastPath(from, f8.to),
                        !.flag = CastPath(from, f8.to) = "Sat" /\ f8.saturate_]
  /\ UNCHANGED <<forest, agg, walk, ev, cls>>

\* QuantizeLinear<T, U>::ComputeInternal
QuantizeCompute ==
  /\ f8.pc = "kernel" /\ f8.op = "QuantizeLinear"
  /\ f8' = [f8 EXCEPT !.pc = "computed", !.path = QuantizePath(f8.to),
                      !.flag = QuantizePath(f8.to) = "Sat" /\ f8.saturate_]
  /\ UNCHANGED <<forest, agg, walk, ev, cls>>

NextCast ==
  KernelInfo \/ CastConstruct \/ QuantizeConstruct \/ CastCompute \/ QuantizeCompute

SpecCast == F8Init /\ [][NextCast]_vars

(***************************************************************************)
(* TreeEnsembleCommonClassifier::Init: the base Init on the class records, *)
(* then the members the classifier adds.  a is the record of attribute     *)
(* arrays, named as the parameters of the classifier's Init.               *)
(***************************************************************************)
\* the n_targets_or_classes argument handed to the base Init
n_classes(a) ==
  IF a.classlabels_strings = <<>> THEN Len(a.classlabels_int64s)
  ELSE Len(a.classlabels_strings)

\* the weight the classifier's loop reads for record i
ClassWeight(a, i) ==
  IF a.class_weights # <<>> THEN At(a.class_weights, i)
  ELSE At(a.class_weights_as_tensor, i)

\* weights_classes after the loop: the set of the class ids inserted
weights_classes(a) == {At(a.class_ids, i) : i \in 0 .. Len(a.class_ids) - 1}

WeightsAreAllPositive_Leq(a) ==
  \A i \in 0 .. Len(a.class_ids) - 1 : ~FLeq(ClassWeight(a, i), FZero)

\* weights_are_all_positive_ after the loop
WeightsAreAllPositive(a) ==
  \A i \in 0 .. Len(a.class_ids) - 1 : ~FLt(ClassWeight(a, i), FZero)

\* binary_case_, from the base's n_targets_or_classes_ and weights_classes
BinaryCase(n, a) == n = 2 /\ Cardinality(weights_classes(a)) = 1

\* class_labels_: the indices of the string labels, when there are any
ClassLabels(a) ==
  IF a.classlabels_strings # <<>>
  THEN [k \in 1 .. Len(a.classlabels_strings) |-> k - 1]
  ELSE <<>>

\* the arguments of the base Init, and the weight it binds to each record
BaseAttrs(a) ==
  [a EXCEPT !.n_targets_or_classes = n_classes(a),
            !.target_class_treeids = a.class_treeids,
            !.target_class_nodeids = a.class_nodeids,
            !.target_class_ids = a.class_ids,
            !.target_class_weights =
               IF a.class_weights_as_tensor = <<>> THEN a.class_weights
               ELSE a.class_weights_as_tensor]

\* the base Init refuses two weight arrays at once
BothWeights(a) == a.class_weights # <<>> /\ a.class_weights_as_tensor # <<>>

ClassifierResult(a, ub) ==
  IF BothWeights(a) THEN [InitResult(BaseAttrs(a), ub) EXCEPT !.err = "throw"]
  ELSE InitResult(BaseAttrs(a), ub)

ClassifierInit ==
  /\ status = "new"
  /\ \E ub \in EndReads :
       LET r == ClassifierResult(attrs, ub)
       IN  /\ SetMembers(r)
           /\ cls' = IF r.err # "" THEN cls
                     ELSE [pc |-> "init",
                           n_targets_or_classes_ |-> n_classes(attrs),
                           weights_are_all_positive_ |-> WeightsAreAllPositive(attrs),
                           binary_case_ |-> BinaryCase(n_classes(attrs), attrs),
                           class_labels_ |-> ClassLabels(attrs)]
  /\ same_mode_' = SameMode(BaseAttrs(attrs))
  /\ has_missing_tracks_' = HasMissingTracks(BaseAttrs(attrs))
  /\ UNCHANGED <<attrs, agg, walk, ev, f8>>

\* Classifier models: one stump whose two leaves carry up to MaxRecords class
\* records; each record names leaf 1 or 2, a class id and a weight; the
\* weights arrive as class_weights, as class_weights_as_tensor or as both;
\* either label table may be empty.
MaxRecords == 2

ClassWeights == {FromInt(1), FZero, FMinusOne, FNaN}

LabelStrings == {<<>>, <<"a", "b">>, <<"a", "b", "c">>}

LabelInts == {<<>>, <<7>>, <<7, 9>>, <<7, 9, 11>>}

ClsAttrs(ids, w, how, strs, ints) ==
  StumpAttrs(1, 1)
    @@ [class_treeids |-> [r \in 1 .. Len(ids) |-> 0],
        class_nodeids |-> [r \in 1 .. Len(ids) |-> r],
        class_ids |-> ids,
        class_weights |-> IF how \in {"float", "both"} THEN w ELSE <<>>,
        class_weights_as_tensor |-> IF how \in {"tensor", "both"} THEN w ELSE <<>>,
        classlabels_strings |-> strs, classlabels_int64s |-> ints]

ClsFamily ==
  \E R \in 0 .. MaxRecords :
    \E ids \in [1 .. R -> {0, 1}], w \in [1 .. R -> ClassWeights] :
      \E how \in (IF R = 0 THEN {"float"} ELSE {"float", "tensor", "both"}) :
        \E strs \in LabelStrings, ints \in LabelInts :
          attrs = ClsAttrs(ids, w, how, strs, ints)

ClsInit ==
  /\ ClsFamily
  /\ FreshForest /\ ev = NoEv /\ f8 = NoF8 /\ cls = NoCls

NextCls == ClassifierInit

SpecCls == ClsInit /\ [][NextCls]_vars


(***************************************************************************)
(* Properties.                                                             *)
(***************************************************************************)
Pos == 0 .. Len(nodes_) - 1

\* the nodes a walk can step to from position b
Children(b) ==
  IF is_not_leaf(At(nodes_, b)) THEN {b + 1, At(nodes_, b).ptr} \cap Pos ELSE {}

RECURSIVE Reach(_, _)
Reach(S, k) ==
  IF k = 0 THEN S ELSE Reach(S \cup UNION {Children(b) : b \in S}, k - 1)

\* the node's own comparator on the row, with its own missing_goes_true flag
OwnNext(pos, x_data) ==
  LET root == At(nodes_, pos)
      val == At(x_data, root.feature_id)
  IN  IF \/ Compare(mode(root), val, root.value_or_unique_weight)
         \/ (is_missing_track_true(root) /\ isnan(val))
      THEN root.ptr ELSE pos + 1

\* The input nodes evaluated as they are written: the leaf (an input index)
\* that row x reaches from input node i, -1 if none is reached in fuel steps
RECURSIVE RefLeaf(_, _, _, _)
RefLeaf(a, i, x, fuel) ==
  IF At(cmodes(a), i) = LEAF THEN i
  ELSE IF fuel = 0 THEN -1
  ELSE LET val == At(x, At(a.nodes_featureids, i))
           missing == /\ i < Len(a.nodes_missing_value_tracks_true)
                      /\ At(a.nodes_missing_value_tracks_true, i) = 1
                      /\ isnan(val)
       IN  RefLeaf(a,
                   IF Compare(At(cmodes(a), i), val, At(a.nodes_values, i)) \/ missing
                   THEN At(truenode_ids(a), i) ELSE At(falsenode_ids(a), i),
                   x, fuel - 1)

\* the target records addressed to input node i, in the order of the input
RefRecords(a, i) ==
  LET sel == SelectSeq([r \in 1 .. Len(a.target_class_nodeids) |-> r],
                       LAMBDA r : /\ a.target_class_treeids[r] = At(a.nodes_treeids, i)
                                  /\ a.target_class_nodeids[r] = At(a.nodes_nodeids, i))
  IN  [k \in 1 .. Len(sel) |-> [i |-> a.target_class_ids[sel[k]],
                                value |-> a.target_class_weights[sel[k]]]]

\* the entries of weights_ a compiled leaf owns
LeafRecords(leaf) == SubSeq(weights_, leaf.weight + 1, leaf.weight + leaf.n_weights)

\* the compiled node at b stands for more input nodes than its own
Folded(b) ==
  At(nodes_, b).falsenode # At(falsenode_ids(attrs), At(nodes_, b).src)

\* C1: after a successful Init, every non-leaf node stored at index b of the
\* compiled node array has its false-branch child stored at index b + 1.
C1_FalseChildNext ==
  status = "ok" =>
    \A b \in Pos :
      is_not_leaf(At(nodes_, b)) =>
        /\ b + 1 \in Pos
        /\ At(nodes_, b + 1).src = At(nodes_, b).falsenode

\* a forest was built in which a chain was folded into a BRANCH_MEMBER node
C1_Witness ==
  /\ status = "ok"
  /\ \E b \in Pos : mode(At(nodes_, b)) = BRANCH_MEMBER /\ Folded(b)

\* C2: for every BRANCH_MEMBER node produced by folding and every row whose
\* tested feature is an integer category in [1, W], the compiled forest
\* yields the leaf contribution (target ids and weights) that the unfolded
\* BRANCH_EQ chain yields on that row.
C2_FoldKeepsContribution ==
  (status = "ok" /\ walk.pc = "done") =>
    LET root == At(nodes_, walk.root)
    IN  (/\ mode(root) = BRANCH_MEMBER
         /\ Folded(walk.root)
         /\ CANMASK(At(walk.x_data, root.feature_id)))
        => LeafRecords(At(nodes_, walk.cur)) =
             RefRecords(attrs, RefLeaf(attrs, root.src, walk.x_data, n_nodes(attrs)))

\* C3: at each branch node a walk visits, it moves to the true child iff the
\* node's own comparator holds on (x[feature_id], threshold) or the value is
\* NaN and the node's missing_goes_true flag is set, and to self + 1
\* otherwise, in the same-mode loop as in the per-node loop.
C3_OwnComparator ==
  [][(walk.pc = "loop" /\ walk'.pc = "loop")
       => walk'.cur = OwnNext(walk.cur, walk.x_data)]_vars

\* C4: after a successful Init, same_mode_ is true iff every non-leaf node of
\* the compiled node array has the same split mode.
C4_SameModeIff ==
  status = "ok" =>
    (same_mode_ <=>
       \A b1, b2 \in Pos :
         (is_not_leaf(At(nodes_, b1)) /\ is_not_leaf(At(nodes_, b2)))
           => mode(At(nodes_, b1)) = mode(At(nodes_, b2)))

\* C5: Init fails for every ensemble whose child links lead from a branch
\* back to that branch, so that no successfully compiled forest contains a
\* cycle of node links.
C5_NoCycle ==
  status = "ok" =>
    \A b \in Pos : b \notin Reach(Children(b), Len(nodes_))


\* C6: for every forest built by a successful Init, every tree root and every
\* row, the walk eventually reaches a leaf and returns it.
C6_WalkEnds == (walk.pc = "loop") ~> (walk.pc = "done")

\* C7: Init fails with an error whenever the input holds two nodes with the
\* same (tree_id, node_id), a branch whose true_id or false_id names no node
\* of its tree, or a branch whose true_id or false_id names the branch itself.
C7_DefectsRejected ==
  LET a == attrs
      duplicate == \E i, j \in Idx(a) :
                     /\ i # j
                     /\ At(a.nodes_treeids, i) = At(a.nodes_treeids, j)
                     /\ At(a.nodes_nodeids, i) = At(a.nodes_nodeids, j)
      named(i, id) == \E j \in Idx(a) :
                        /\ At(a.nodes_treeids, j) = At(a.nodes_treeids, i)
                        /\ At(a.nodes_nodeids, j) = id
      branch(i) == At(a.nodes_modes, i) # LEAF
      dangling == \E i \in Idx(a) :
                    /\ branch(i)
                    /\ \/ ~named(i, At(a.nodes_truenodeids, i))
                       \/ ~named(i, At(a.nodes_falsenodeids, i))
      selfloop == \E i \in Idx(a) :
                    /\ branch(i)
                    /\ \/ At(a.nodes_truenodeids, i) = At(a.nodes_nodeids, i)
                       \/ At(a.nodes_falsenodeids, i) = At(a.nodes_nodeids, i)
  IN  (status # "new" /\ (duplicate \/ dangling \/ selfloop)) => status = "throw"

\* Init has thrown on a tree whose only defect is a root branch, stored after
\* another tree, that names itself as its true child
C7_Witness ==
  /\ status = "throw"
  /\ attrs.nodes_treeids = <<0, 1, 1>>
  /\ attrs.nodes_nodeids = <<0, 0, 2>>
  /\ attrs.nodes_modes = <<LEAF, BRANCH_LEQ, LEAF>>
  /\ attrs.nodes_truenodeids = <<0, 0, 0>>
  /\ attrs.nodes_falsenodeids = <<0, 2, 0>>

\* C8: a chain of consecutive BRANCH_EQ nodes, each the false child of the
\* one before, on one feature, with integer thresholds in [1, W] and one
\* true subtree, compiles to exactly one BRANCH_MEMBER node whose mask has
\* bit v - 1 set for exactly the thresholds v of the chain and whose false
\* child is the false child of the last chain node.
C8_ChainFoldsToOne ==
  status = "ok" =>
    \A b \in Pos :
      LET a == attrs
          p == At(nodes_, b).src
          q == At(falsenode_ids(a), p)
          e == At(falsenode_ids(a), q)
      IN  (/\ b \in {roots_[j] : j \in 1 .. Len(roots_)}
           /\ At(a.nodes_modes, p) = BRANCH_EQ
           /\ At(a.nodes_modes, q) = BRANCH_EQ
           /\ At(a.nodes_modes, e) = LEAF
           /\ At(a.nodes_featureids, p) = At(a.nodes_featureids, q)
           /\ CANMASK(At(a.nodes_values, p))
           /\ CANMASK(At(a.nodes_values, q))
           /\ At(truenode_ids(a), p) = At(truenode_ids(a), q))
          => /\ mode(At(nodes_, b)) = BRANCH_MEMBER
             /\ \A k \in 0 .. BITCOUNT - 2 :
                  Bit(At(nodes_, b).value_or_unique_weight, k) = 1
                    <=> k + 1 \in {ToInt(At(a.nodes_values, p)),
                                   ToInt(At(a.nodes_values, q))}
             /\ At(nodes_, b + 1).src = e
             /\ \A o \in Pos : At(nodes_, o).src # q

\* C9: after a successful Init, n_weights of every leaf is the number of
\* target records whose (tree_id, node_id) is the leaf's id, and those
\* records are the n_weights entries of the weights table that start at the
\* leaf's weight base; no leaf receives the record of another node.
C9_LeafOwnsItsRecords ==
  status = "ok" =>
    \A b \in Pos :
      ~is_not_leaf(At(nodes_, b)) =>
        LeafRecords(At(nodes_, b)) = RefRecords(attrs, At(nodes_, b).src)

\* C10: a 1-D input of length L is one row of L features; the evaluation of
\* a 1-D or 2-D input of row width C passes the entry checks when
\* C >= max_feature_id + 1, and fails when C < max_feature_id + 1 or when
\* the rank exceeds 2.
C10_RowWidth ==
  agg.pc \in {"run", "throw"} =>
    LET rank == NumDimensions(agg.shape)
        width == IF rank = 1 THEN agg.shape[1] ELSE agg.shape[2]
    IN  agg.pc = "run" <=> (rank <= 2 /\ width >= max_feature_id_ + 1)


\* C11: whatever the number of rows N, of trees T and of threads P, and for
\* one target as for several, ComputeAgg runs section A when N = 1 and
\* (T <= 80 or P = 1), B when N = 1, T > 80 and P > 1, C when N > 1 and
\* (N <= 50 or P = 1), and otherwise D when T >= P and E when T < P.
C11_SectionOfSizes ==
  ev.pc = "section" =>
    ev.section =
      IF ev.N = 1 /\ (ev.T <= 80 \/ ev.P = 1) THEN "A"
      ELSE IF ev.N = 1 THEN "B"
      ELSE IF ev.N <= 50 \/ ev.P = 1 THEN "C"
      ELSE IF ev.T >= ev.P THEN "D"
      ELSE "E"

\* The score of row x_data as the attributes define it: for target t, the sum
\* over the trees of the weights that the records of the leaf the row reaches
\* give to t
RECURSIVE SumRecords(_, _, _)
SumRecords(records, t, k) ==
  IF k > Len(records) THEN 0
  ELSE (IF records[k].i = t THEN ToInt(records[k].value) ELSE 0)
       + SumRecords(records, t, k + 1)

RECURSIVE SumTrees(_, _, _, _)
SumTrees(a, x_data, t, i) ==
  IF i >= n_nodes(a) THEN 0
  ELSE (IF At(a.nodes_nodeids, i) = 0
        THEN SumRecords(RefRecords(a, RefLeaf(a, i, x_data, n_nodes(a))), t, 1)
        ELSE 0)
       + SumTrees(a, x_data, t, i + 1)

SerialScores(a, x_data) ==
  [k \in 1 .. a.n_targets_or_classes |->
     IF SumTrees(a, x_data, k - 1, 0) = 0 THEN FZero
     ELSE FromInt(SumTrees(a, x_data, k - 1, 0))]

\* C12: under SUM with integer weights, whatever N, T, P and the order in
\* which the workers run, the output of the sections B, C, D and E is the
\* output of the plain serial evaluation: every row receives the leaf of
\* every tree once, and nothing of another row or of an earlier chunk.
C12_SerialOutput ==
  (ev.pc = "done" /\ ev.section \in {"B", "C", "D", "E"}) =>
    \A i \in 0 .. ev.N - 1 :
      At(ev.z, i) = SerialScores(attrs, RowOf(ev.X, i))

\* section D has run over two chunks of rows that reach different leaves,
\* with two workers
C12_Witness ==
  /\ ev.pc = "done" /\ ev.section = "D"
  /\ ev.N > attrs.parallel_tree_N /\ ev.num_threads > 1
  /\ At(ev.X, 0) # At(ev.X, ev.N - 1)
  /\ At(ev.z, 0) # At(ev.z, ev.N - 1)

\* C13: within one parallel-for of the sections B, D and E, tree phase or
\* merge phase, no slot of scores and no element of the output or of the
\* labels is written by two workers, and none that a worker writes is read
\* by another worker.
C13_DisjointAccess ==
  ev.pc \in {"for", "merge", "done"} =>
    \A w \in ev.wrs, a \in ev.wrs \cup ev.rds :
      (w[2] = a[2] /\ w[3] = a[3]) => w[1] = a[1]

\* the last parallel-for of D is running: two workers have written, and a
\* slot of another worker's tree phase has been read
C13_Witness ==
  /\ ev.pc = "for" /\ ev.par = "Dmerge"
  /\ \E w1 \in ev.wrs, w2 \in ev.wrs : w1[1] # w2[1]
  /\ \E r \in ev.rds : r[2] = "scores" /\ r[3] >= ev.N

\* the first rows of the chunks of section D
ChunkBegins(N) == {c \in 0 .. N - 1 : c % attrs.parallel_tree_N = 0}

\* C14: in the sections B and D the merge phase runs only once every worker
\* of the tree phase, of every chunk of rows, is done: no score is merged or
\* finalized while a worker of the tree phase is still to run or running.
C14_MergeAfterTrees ==
  (ev.pc = "merge" \/ (ev.pc = "for" /\ ev.par = "Dmerge")) =>
    ev.treedone = (IF ev.section = "B" THEN {0} ELSE ChunkBegins(ev.N))
                    \X (0 .. ev.num_threads - 1)

\* the last parallel-for of D has merged a row, after two chunks
C14_Witness ==
  /\ ev.pc = "for" /\ ev.par = "Dmerge"
  /\ ev.N > attrs.parallel_tree_N
  /\ \E i \in 1 .. ev.N : ev.z[i] # <<>>

\* C15: the evaluations of a compiled forest, one after the other or at the
\* same time, leave the nodes, the weights, the roots, the base values and
\* the flags of the forest as Init built them; they write their own scores
\* and the output only.
C15_ForestUnchanged ==
  [][status = "ok" =>
       /\ UNCHANGED forest
       /\ (ev' # ev => walk' = walk)
       /\ (walk' # walk => ev' = ev)]_vars

\* a worker of a batch evaluation has written scores while a walk of another
\* evaluation is inside a tree
C15_Witness ==
  /\ status = "ok" /\ nodes_ # <<>>
  /\ ev.pc = "for" /\ ev.wrs # {}
  /\ walk.pc = "loop" /\ walk.cur # walk.root

\* the compiled node at pos is a leaf that carries the one weight of the v5
\* leaf
IsV5Leaf(pos, leaf) ==
  /\ mode(At(nodes_, pos)) = LEAF
  /\ At(nodes_, pos).n_weights = 1
  /\ At(weights_, At(nodes_, pos).weight).value = At(attrs.leaf_weights, leaf)

\* the compiled node at pos is a BRANCH_MEMBER node on the feature of the v5
\* node whose mask has bit v - 1 set for exactly the values v of vals
IsV5Member(pos, node, vals) ==
  /\ mode(At(nodes_, pos)) = BRANCH_MEMBER
  /\ At(nodes_, pos).feature_id = At(attrs.nodes_featureids, node)
  /\ \A k \in 0 .. BITCOUNT - 2 :
       Bit(At(nodes_, pos).value_or_unique_weight, k) = 1
         <=> \E r \in 1 .. Len(vals) : ToInt(vals[r]) = k + 1

\* C16: a v5 BRANCH_MEMBER node whose membership values are integers in
\* [1, W] is compiled to exactly one BRANCH_MEMBER node whose mask has bit
\* v - 1 set for exactly its membership values v and whose true and false
\* subtrees are those of the v5 node, so that a row takes the true branch
\* iff the tested feature is one of the membership values.
C16_MemberNodeRoundTrip ==
  status # "new" =>
    /\ status = "ok"
    /\ IsV5Member(0, 0, MembershipRun(attrs.membership_values, 0))
    /\ IsV5Leaf(At(nodes_, 0).ptr, At(attrs.nodes_truenodeids, 0))
    /\ IF At(attrs.nodes_falseleafs, 0) # 0
       THEN IsV5Leaf(1, At(attrs.nodes_falsenodeids, 0))
       ELSE /\ At(nodes_, 1).feature_id = At(attrs.nodes_featureids, 1)
            /\ IF At(attrs.nodes_modes, 1) = BRANCH_MEMBER
               THEN IsV5Member(1, 1, <<FromInt(MaxMember + 1)>>)
               ELSE /\ mode(At(nodes_, 1)) = At(attrs.nodes_modes, 1)
                    /\ At(nodes_, 1).value_or_unique_weight = At(attrs.nodes_splits, 1)
    /\ \A n \in 0 .. MaxMember + 1, y \in {FZero, FromInt(1)} :
         LET x == IF n = 0 THEN FZero ELSE FromInt(n)
         IN  NextNode(0, <<x, y>>, "switch") = At(nodes_, 0).ptr
               <=> \E r \in 1 .. Len(MembershipRun(attrs.membership_values, 0)) :
                     MembershipRun(attrs.membership_values, 0)[r] = x

\* the bytes that encode a finite value
FiniteByte(fmt, x) ==
  IF fmt = "E4M3" THEN x \notin {127, 255} ELSE Shr(x, 2) % 32 # 31

\* C17: a byte that encodes a finite E4M3 value (every byte but 0x7F and
\* 0xFF) or a finite E5M2 value (exponent field not all ones) is the byte
\* the constructor returns for the float ToFloat gives for it.
C17_RoundTrip ==
  (f8.pc = "narrowed" /\ f8.x >= 0 /\ FiniteByte(f8.fmt, f8.x)) => f8.val = f8.x

C17_Witness ==
  /\ f8.pc = "narrowed" /\ f8.fmt = "E4M3"
  /\ f8.x = 129 /\ f8.b = F32(1, 118, 0) /\ f8.val = 129

\* the number of mantissa bits, the bias and the largest finite magnitude
\* of a format
MantBitsOf(fmt) == IF fmt = "E4M3" THEN 3 ELSE 2

BiasOf(fmt) == IF fmt = "E4M3" THEN 7 ELSE 15

MaxFiniteOf(fmt) == IF fmt = "E4M3" THEN 126 ELSE 123

\* the value w * 2^k of the magnitude byte n
ValueOf(fmt, n) ==
  IF Shr(n, MantBitsOf(fmt)) = 0
  THEN [w |-> n % Pow2(MantBitsOf(fmt)), k |-> 1 - BiasOf(fmt) - MantBitsOf(fmt)]
  ELSE [w |-> Pow2(MantBitsOf(fmt)) + (n % Pow2(MantBitsOf(fmt))),
        k |-> Shr(n, MantBitsOf(fmt)) - BiasOf(fmt) - MantBitsOf(fmt)]

\* the sum of two values, the first with the smaller exponent
SumOf(u, v) == [w |-> u.w + v.w * Pow2(v.k - u.k), k |-> u.k]

\* twice the midpoint of the values of n and n + 1
TwiceMid(fmt, n) == SumOf(ValueOf(fmt, n), ValueOf(fmt, n + 1))

\* the magnitude w * 2^k of a finite binary32 value
MagnitudeOf(b) ==
  IF FExp(b.abs) = 0 THEN [w |-> FMant(b.abs), k |-> -149]
  ELSE [w |-> TwoP23 + FMant(b.abs), k |-> FExp(b.abs) - 150]

Sgn(n) == IF n < 0 THEN -1 ELSE IF n > 0 THEN 1 ELSE 0

\* the sign of u.w * 2^u.k - v.w * 2^v.k, for u.w < 2^24 and 0 < v.w < 2^6
CmpValues(u, v) ==
  IF u.w = 0 THEN -1
  ELSE IF u.k >= v.k
  THEN IF u.k - v.k > 6 THEN 1 ELSE Sgn(u.w * Pow2(u.k - v.k) - v.w)
  ELSE IF v.k - u.k > 30 THEN -1
  ELSE IF Shr(u.w, v.k - u.k) # v.w THEN Sgn(Shr(u.w, v.k - u.k) - v.w)
  ELSE IF u.w % Pow2(v.k - u.k) # 0 THEN 1 ELSE 0

Twice(u) == [w |-> u.w, k |-> u.k + 1]

IsFinite(b) == FExp(b.abs) # 255

InRange(fmt, b) ==
  /\ IsFinite(b)
  /\ \/ FMant(b.abs) = 0 /\ FExp(b.abs) = 0
     \/ CmpValues(MagnitudeOf(b), ValueOf(fmt, MaxFiniteOf(fmt))) <= 0

\* the magnitude byte n is the nearest to b, and the even one of the two
\* nearest when b is halfway
NearestEven(fmt, b, n) ==
  /\ n <= MaxFiniteOf(fmt)
  /\ n > 0 =>
       /\ CmpValues(Twice(MagnitudeOf(b)), TwiceMid(fmt, n - 1)) >= 0
       /\ CmpValues(Twice(MagnitudeOf(b)), TwiceMid(fmt, n - 1)) = 0 => n % 2 = 0
  /\ n < MaxFiniteOf(fmt) =>
       /\ CmpValues(Twice(MagnitudeOf(b)), TwiceMid(fmt, n)) <= 0
       /\ CmpValues(Twice(MagnitudeOf(b)), TwiceMid(fmt, n)) = 0 => n % 2 = 0

\* C18: for a binary32 input within the finite range of the format the
\* constructor returns the nearest representable value with the sign of the
\* input, and the one with an even mantissa when the input is halfway
\* between two of them, the boundary between zero and the smallest
\* subnormal included.
C18_RoundToNearestEven ==
  (f8.pc = "narrowed" /\ f8.x = -1 /\ InRange(f8.fmt, f8.b)) =>
    /\ NearestEven(f8.fmt, f8.b, f8.val % 128)
    /\ f8.val % 128 # 0 => Shr(f8.val, 7) = f8.b.sign

\* C19: every binary32 input that is not a NaN and whose magnitude is 448
\* or more (the infinities included) gives the largest finite E4M3 value
\* with the sign of the input, 0x7E or 0xFE.
C19_SaturatesAt448 ==
  (/\ f8.pc = "narrowed" /\ f8.x = -1 /\ f8.fmt = "E4M3"
   /\ ~isnan(f8.b.abs) /\ f8.b.abs >= Float(135, 6 * Pow2(20)))
    => f8.val = 126 + 128 * f8.b.sign

\* C20: a binary32 NaN gives the E4M3 NaN of its sign, 0x7F when the sign
\* bit is clear and 0xFF when it is set.
C20_NaNKeepsSign ==
  (f8.pc = "narrowed" /\ f8.x = -1 /\ f8.fmt = "E4M3" /\ isnan(f8.b.abs))
    => f8.val = 127 + 128 * f8.b.sign

\* C21: for a binary32 input that is not a NaN and whose biased exponent is
\* 144 or more, FloatE5M2(float) returns the infinity of the input's sign
\* (0x7C, 0xFC) when the input is infinite and the reserved encoding of its
\* sign (0x7B, 0xFB) when it is finite.
C21_E5M2Overflow ==
  (/\ f8.pc = "narrowed" /\ f8.x = -1 /\ f8.fmt = "E5M2"
   /\ ~isnan(f8.b.abs) /\ FExp(f8.b.abs) >= 144)
    => f8.val = (IF IsFinite(f8.b) THEN 123 ELSE 124) + 128 * f8.b.sign

C21_Witness ==
  /\ f8.pc = "narrowed" /\ f8.x = -1 /\ f8.fmt = "E5M2"
  /\ f8.b = F32(1, 255, 0) /\ f8.val = 252

\* C22: FloatE5M2(65504.0f) is the encoding reserved for finite overflow,
\* 0x7B, and no other.
C22_HalfMaxOverflows ==
  (f8.pc = "narrowed" /\ f8.x = -1 /\ f8.fmt = "E5M2" /\ f8.b = Float65504)
    => f8.val = 123

C24_MissingTracksIff ==
  status = "ok" =>
    (has_missing_tracks_ <=> \E pos \in Pos : is_missing_track_true(At(nodes_, pos)))

\* C25: after a successful classifier Init, binary_case_ holds exactly when
\* there are two classes and class_ids names exactly one distinct class id,
\* weights_are_all_positive_ holds exactly when no class weight is strictly
\* negative, and the number of classes is the length of the string label
\* table when it is non-empty and of the integer label table otherwise.
C25_ClassifierFlags ==
  (status = "ok" /\ cls.pc = "init") =>
    LET ids == attrs.class_ids
        w == IF attrs.class_weights = <<>> THEN attrs.class_weights_as_tensor
             ELSE attrs.class_weights
        n == IF Len(attrs.classlabels_strings) > 0
             THEN Len(attrs.classlabels_strings)
             ELSE Len(attrs.classlabels_int64s)
    IN  /\ cls.n_targets_or_classes_ = n
        /\ cls.binary_case_ <=>
             (n = 2 /\ Len(ids) > 0 /\ \A k \in 1 .. Len(ids) : ids[k] = ids[1])
        /\ cls.weights_are_all_positive_ <=> ~(\E k \in 1 .. Len(w) : w[k] < 0)

C25_Witness ==
  /\ status = "ok" /\ cls.pc = "init"
  /\ attrs.class_ids = <<1, 1>> /\ attrs.class_weights = <<FZero, FMinusOne>>
  /\ attrs.classlabels_strings = <<"a", "b">> /\ Len(attrs.classlabels_int64s) = 3
  /\ cls.binary_case_ /\ ~cls.weights_are_all_positive_

\* the thresholds that are an integer of 1 .. BITCOUNT
SmallIntegers == {FromInt(k) : k \in 1 .. BITCOUNT}

\* C26: after a successful Init no compiled node is a BRANCH_EQ node whose
\* threshold is an integer of 1 .. BITCOUNT: a compiled node built from a
\* BRANCH_EQ input node with such a threshold is a BRANCH_MEMBER node whose
\* mask holds the bit of that threshold, and one built from a BRANCH_EQ input
\* node with any other threshold is a BRANCH_EQ node with that threshold.
C26_MaskableEqBecomesMember ==
  status = "ok" =>
    \A pos \in Pos :
      LET node == At(nodes_, pos)
          thr == At(attrs.nodes_values, node.src)
      IN  /\ mode(node) = BRANCH_EQ => node.value_or_unique_weight \notin SmallIntegers
          /\ At(attrs.nodes_modes, node.src) = BRANCH_EQ =>
                IF thr \in SmallIntegers
                THEN /\ mode(node) = BRANCH_MEMBER
                     /\ \E k \in 1 .. BITCOUNT :
                          thr = FromInt(k) /\ Bit(node.value_or_unique_weight, k - 1) = 1
                ELSE mode(node) = BRANCH_EQ /\ node.value_or_unique_weight = thr

C26_Witness ==
  /\ status = "ok" /\ Len(nodes_) = 5
  /\ attrs.nodes_modes[1] = BRANCH_EQ /\ attrs.nodes_values[1] = FromInt(BITCOUNT - 1)
  /\ attrs.nodes_modes[2] = BRANCH_EQ /\ attrs.nodes_values[2] = Float(127, Pow2(22))
  /\ mode(At(nodes_, 0)) = BRANCH_MEMBER
  /\ At(nodes_, 0).value_or_unique_weight = Pow2(BITCOUNT - 2)
  /\ mode(At(nodes_, 1)) = BRANCH_EQ

\* C27: for every binary32 input that is not a NaN, bit 7 of the byte that
\* FloatE4M3(float) or FloatE5M2(float) returns is the sign bit of the input.
C27_SignBitKept ==
  (f8.pc = "narrowed" /\ f8.x = -1 /\ ~isnan(f8.b.abs))
    => Shr(f8.val, 7) = f8.b.sign

\* C28: in an evaluation that passed the feature-range check, every read of
\* the input row by ProcessTreeNodeLeave uses an index feature_id with
\* 0 <= feature_id < C, in the same-mode loops and in the per-node loop, the
\* read made at a leaf included.
C28_ReadsInsideRow ==
  (status = "ok" /\ walk.pc = "loop" /\ max_feature_id_ < Len(walk.x_data))
    => \A feature_id \in RowReads(walk.cur, walk.cmp) :
         0 <= feature_id /\ feature_id < Len(walk.x_data)

\* the index of the first-listed node of tree t
FirstOfTree(t) ==
  CHOOSE i \in 0 .. Len(attrs.nodes_treeids) - 1 :
    /\ At(attrs.nodes_treeids, i) = t
    /\ \A j \in 0 .. i - 1 : At(attrs.nodes_treeids, j) # t

\* C29: after a successful Init, n_trees_ is the number of distinct tree ids
\* of the input and the roots are the compiled first-listed nodes of the
\* trees, one root for each tree, in whatever order the nodes of different
\* trees are listed.
C29_OneRootPerTree ==
  status = "ok" =>
    LET ids == {attrs.nodes_treeids[k] : k \in 1 .. Len(attrs.nodes_treeids)}
    IN  /\ n_trees_ = Cardinality(ids)
        /\ Len(roots_) = Cardinality(ids)
        /\ \A t \in ids :
             \E j \in 1 .. Len(roots_) : At(nodes_, roots_[j]).src = FirstOfTree(t)

\* the leaf indices the v5 attributes reference: the true ids and false ids
\* marked as leaves, or the true id of the root when the root is a leaf
ReferencedLeaves ==
  LET root == At(attrs.tree_roots, 0)
      N == 0 .. Len(attrs.nodes_modes) - 1
  IN  IF At(attrs.nodes_truenodeids, root) = At(attrs.nodes_falsenodeids, root)
      THEN {At(attrs.nodes_truenodeids, root)}
      ELSE {At(attrs.nodes_truenodeids, n) : n \in {k \in N : At(attrs.nodes_trueleafs, k) # 0}}
           \cup {At(attrs.nodes_falsenodeids, n) : n \in {k \in N : At(attrs.nodes_falseleafs, k) # 0}}

\* C30: the record of a leaf the v5 front end emits holds the target id and
\* the weight of the leaf index in the true id or false id that references
\* the leaf; for a tree whose root is a leaf (the true id of the root equals
\* its false id) that is the leaf index in the true id of the root, not the
\* position of the root.
C30_LeafRecordByReference ==
  status = "ok" =>
    {weights_[r] : r \in 1 .. Len(weights_)}
      = {[i |-> At(attrs.leaf_targetids, leaf), value |-> At(attrs.leaf_weights, leaf)] :
           leaf \in ReferencedLeaves}

====
